---- MODULE Spec2Model ----
(***************************************************************************)
(* Model of imgc's plugin registry (imgc/plugin_manager.py), processor     *)
(* chain (imgc/processor_chain.py) and watchers (imgc/plugin_watcher.py,   *)
(* imgc/watcher.py).  A chain run is a process_file call made by one of    *)
(* the caller threads of imgc/plugin_watcher.py (an event pipeline thread  *)
(* or a bulk worker); every processor invocation runs in its own daemon    *)
(* thread that the caller joins with a timeout.                            *)
(***************************************************************************)
EXTENDS Integers, Sequences, FiniteSets, TLC

VARIABLES
    processors,      \* PluginManager.processors: the registry list
    registry_state,  \* "Empty" before discover_plugins has run, then "Ready"
    max_concurrent,  \* ProcessorChain.max_concurrent
    semaphore,       \* value of ProcessorChain._semaphore
    stats,           \* ProcessorChain._stats
    call,            \* per caller thread: the frame of its process_file call
    thread,          \* per caller and chain position: the invocation thread
    now,             \* time.time()
    cooldown,        \* handler.cooldown
    processed,       \* handler._processed: resolved path -> time of the last accepted event
    sp,              \* per thread: the frame of its _should_process call
    log,             \* the accepted calls of _should_process: caller, key, time read
    stop_event,      \* PluginWatcher.stop_event, shared with the handler: is it set
    stable_seconds,  \* handler.stable_seconds
    new_delay,       \* handler.new_delay
    pipeline,        \* per pipeline thread: the frame of _process_file_safely
    fs,              \* the watched tree: path -> st_size of the files that exist
    delivery,        \* the observer's event-delivery thread: the frame of the handler
    supported_extensions,  \* handler.supported_extensions
    events,          \* the observer's queue of events that wait for dispatch, and
                     \* the number of writes to the tree made from outside
    observer,        \* the watchdog Observer: "created", "alive" or "stopped"
    main,            \* the main thread: the frame of start_watching
    tasks,           \* the futures of the bulk pool, one per file
    created,         \* the files created since start_watching was called: was an
                     \* event dispatched to the handler or did no observer see it
    failed_plugins,  \* PluginManager.failed_plugins: file name -> error message
    scan,            \* the frame of discover_plugins / reload_plugins
    reader,          \* a thread that queries the registry: the frame of its query
    inc              \* per caller thread: the frame of its `self._stats[key] += 1`

chain_vars == <<processors, registry_state, max_concurrent, semaphore, stats, call, thread>>

cooldown_vars == <<now, cooldown, processed, sp, log>>

pipeline_vars == <<stop_event, stable_seconds, new_delay, pipeline, fs>>

event_vars == <<delivery, supported_extensions, events>>

lifecycle_vars == <<observer, main, tasks, created>>

manager_vars == <<failed_plugins, scan, reader, inc>>

handler_vars == <<cooldown_vars, pipeline_vars, event_vars, lifecycle_vars, manager_vars>>

vars == <<chain_vars, handler_vars>>

(***************************************************************************)
(* Bounds and program constants                                            *)
(***************************************************************************)
\* largest max_concurrent a ProcessorChain is constructed with in the model
MaxPermits == 2

\* latest clock reading followed
MaxTime == 4

\* largest cooldown a handler is constructed with in the model
MaxCooldown == 2

\* FileProcessor.priority default
DefaultPriority == 100

\* PluginFileHandler.__init__ default of cooldown
DefaultCooldown == 5

\* PluginFileHandler.__init__ default of stable_seconds
DefaultStableSeconds == 2

\* PluginFileHandler.__init__ default of new_delay
DefaultNewDelay == 0

\* _wait_for_stable_file default of max_attempts
MaxAttempts == 10

\* largest stable_seconds a handler is constructed with in the model
MaxStableSeconds == 1

\* largest st_size of a file of the watched tree
MaxSize == 2

\* ProcessorChain.__init__ default of max_concurrent
DefaultMaxConcurrent == 1

\* threads that call process_file: a direct user of ProcessorChain, and the two
\* paths of plugin_watcher.py (the event pipeline thread and a bulk worker)
Callers == {"main", "event", "event2", "bulk", "bulk2"}

(***************************************************************************)
(* Python values                                                           *)
(***************************************************************************)
Absent == "<absent>"

Keys == {"original_path", "chain_start_time", "a_ran", "tag", "scratch"}

EmptyItems == [k \in Keys |-> Absent]

Items(pairs) == [k \in Keys |-> IF k \in DOMAIN pairs THEN pairs[k] ELSE Absent]

PyDict(items) == [type |-> "dict", items |-> items]

PyStr(s) == [type |-> "str", items |-> EmptyItems, text |-> s]

\* bool(value) of a value used as a context
Truthy(v) == IF v.type = "dict" THEN v.items # EmptyItems ELSE v.text # ""

NoneValue == [type |-> "NoneType"]

\* dict.update(other) for a mapping `other`
DictUpdate(items, other) == [k \in Keys |-> IF other[k] # Absent THEN other[k] ELSE items[k]]

(***************************************************************************)
(* Candidate processors (plugin_api.FileProcessor implementations)         *)
(***************************************************************************)
ProcIds == {"A", "B", "C"}

Priority(p) == CASE p = "A" -> 10
                 [] p = "B" -> 200
                 [] p = "D" -> 10
                 [] p = "R" -> 5
                 [] OTHER -> DefaultPriority

Version(p) == "1.0.0"

SupportedExtensions(p) == CASE p \in {"A", "B", "D", "R"} -> {".t"}
                            [] OTHER -> {".T"}

\* the context a processor puts in a ProcessorResult
CtxOf(p) == CASE p = "A" -> Items([a_ran |-> "true", tag |-> "A"])
              [] p = "B" -> Items([tag |-> "B"])
              [] OTHER -> Items([tag |-> "C", original_path |-> "C"])

Files == {"x.t", "n.z"}

\* Path.suffix
Suffix(f) == CASE f = "n.z" -> ".z"
               [] f = "y.T" -> ".T"
               [] f = "p.jpg" -> ".jpg"
               [] OTHER -> ".t"

Lower(ext) == IF ext = ".T" THEN ".t" ELSE ext

\* FileProcessor.can_process: case-insensitive extension membership
CanProcess(p, f) == Lower(Suffix(f)) \in {Lower(e) : e \in SupportedExtensions(p)}

(***************************************************************************)
(* ProcessorResult and the values process() can produce                    *)
(***************************************************************************)
\* ProcessorResult.__init__: falsy stats/context become {}
ProcessorResult(success, message, context) ==
    [type |-> "ProcessorResult", success |-> success, message |-> message,
     context |-> IF context.type # "NoneType" /\ Truthy(context) THEN context ELSE PyDict(EmptyItems)]

\* a dict returned by process(): `keys` are the keys it holds
ReturnedDict(keys, success, context) ==
    [type |-> "dict", keys |-> keys, success |-> success, message |-> <<"from-dict">>,
     context |-> context]

DictGet(d, key, default) == IF key \in d.keys THEN d[key] ELSE default

\* what process() of p may return
ReturnValues(p) ==
    CASE p = "A" -> { ProcessorResult(TRUE, <<"ok">>, PyDict(CtxOf(p))),
                      NoneValue }
      [] p = "B" -> { ProcessorResult(TRUE, <<"ok">>, PyDict(CtxOf(p))),
                      ReturnedDict({"success"}, FALSE, NoneValue),
                      PyStr("done") }
      [] OTHER  -> { ProcessorResult(TRUE, <<"ok">>, PyDict(CtxOf(p))),
                      ProcessorResult(FALSE, <<"failed">>, PyDict(CtxOf(p))),
                      ProcessorResult(TRUE, <<"ok">>, PyStr("ab")),
                      ReturnedDict({"context"}, TRUE, PyDict(CtxOf(p))),
                      PyStr("") }

\* messages of the exceptions process() of p may raise
RaisedMessages(p) == {"boom"}

\* an insertion that puts p ahead of the processors of its own priority
InsertBeforeEqual(sorted, p) ==
    LET n == Cardinality({k \in 1..Len(sorted) : Priority(sorted[k]) < Priority(p)})
    IN  SubSeq(sorted, 1, n) \o <<p>> \o SubSeq(sorted, n + 1, Len(sorted))

(***************************************************************************)
(* PluginManager                                                           *)
(***************************************************************************)
\* where list.sort puts p in an ascending list: behind every entry whose
\* priority is not larger (the sort is stable)
InsertByPriority(sorted, p) ==
    LET n == Cardinality({k \in 1..Len(sorted) : Priority(sorted[k]) <= Priority(p)})
    IN  SubSeq(sorted, 1, n) \o <<p>> \o SubSeq(sorted, n + 1, Len(sorted))

RECURSIVE SortRec(_)
SortRec(s) == IF s = <<>> THEN <<>>
              ELSE InsertByPriority(SortRec(SubSeq(s, 1, Len(s) - 1)), s[Len(s)])

\* a sort that leaves the list as it was given
SortLeavesOrder(s) == s

\* list.sort(key=lambda p: p.priority)
SortByPriority(s) == SortRec(s)

\* does can_process of p raise for f
CanProcessRaises(p, f) == p = "R"

\* a loop that takes a processor whose can_process raised for one that applies
AppliesOrRaises(p, f) == CanProcessRaises(p, f) \/ CanProcess(p, f)

\* `try: if processor.can_process(file_path)` with its except clause: a
\* can_process that raises counts as False
Applies(p, f) == ~CanProcessRaises(p, f) /\ CanProcess(p, f)

RECURSIVE SelectApplicable(_, _)
SelectApplicable(s, f) ==
    IF s = <<>> THEN <<>>
    ELSE (IF Applies(s[1], f) THEN <<s[1]>> ELSE <<>>) \o SelectApplicable(Tail(s), f)

\* PluginManager.get_processors_for_file
get_processors_for_file(f) == SortByPriority(SelectApplicable(processors, f))

\* the discovery orders: every arrangement of every set of candidates
DiscoveryOrders ==
    UNION { { s \in [1..Cardinality(S) -> S] : \A a, b \in 1..Cardinality(S) : a # b => s[a] # s[b] }
            : S \in SUBSET ProcIds }

\* PluginManager.discover_plugins: load the candidates, then sort by priority
discover_plugins(order) ==
    /\ registry_state = "Empty"
    /\ processors' = SortByPriority(order)
    /\ registry_state' = "Ready"
    /\ UNCHANGED <<max_concurrent, semaphore, stats, call, thread>>

(***************************************************************************)
(* ProcessorChain: values                                                  *)
(***************************************************************************)
\* processor_filter arguments: None, or a predicate over processors
Filters == {"None", "only_B", "reject_all"}

FilterAccepts(flt, p) == CASE flt = "None" -> TRUE
                           [] flt = "only_B" -> p = "B"
                           [] OTHER -> FALSE

RECURSIVE ApplyFilter(_, _)
ApplyFilter(s, flt) ==
    IF s = <<>> THEN <<>>
    ELSE (IF FilterAccepts(flt, s[1]) THEN <<s[1]>> ELSE <<>>) \o ApplyFilter(Tail(s), flt)

\* the context a chain run starts from; the caller stands for time.time()
SeedContext(f, c) == Items([original_path |-> f, chain_start_time |-> c])

\* a record that reports the absence of processors as a failure
NoProcessorsFailure(f) ==
    [file_path |-> f, processors_run |-> 0, results |-> <<>>, success |-> FALSE,
     message |-> <<"No applicable processors found">>]

\* the record process_file returns when no processor applies
NoProcessorsRecord(f) ==
    [file_path |-> f, processors_run |-> 0, results |-> <<>>, success |-> TRUE,
     message |-> <<"No applicable processors found">>]

\* the record process_file returns after running the chain (the wall-clock
\* duration is left out)
ChainRecord(f, procs, results, overall_success) ==
    LET successful_count == Cardinality({k \in 1..Len(results) : results[k].success})
    IN  [file_path |-> f, processors_run |-> Len(procs),
         successful_processors |-> successful_count,
         failed_processors |-> Len(procs) - successful_count,
         results |-> results, success |-> overall_success,
         message |-> <<"Processed through", "processors">>]

\* ProcessorResult.to_dict
to_dict(r) == [success |-> r.success, message |-> r.message, stats |-> <<>>, context |-> r.context]

\* the entry appended for a processor that returned a result
ResultEntry(p, i, result) ==
    [processor |-> p, processor_version |-> Version(p), result |-> to_dict(result),
     success |-> result.success, order |-> i]

\* the entry appended by the ProcessorTimeout handler
TimeoutEntry(p, i, message) ==
    [processor |-> p, processor_version |-> Version(p),
     result |-> [success |-> FALSE, message |-> message, timeout |-> TRUE],
     success |-> FALSE, order |-> i]

\* the entry appended by the Exception handler
ErrorEntry(p, i, message) ==
    [processor |-> p, processor_version |-> Version(p),
     result |-> [success |-> FALSE, message |-> message, error |-> TRUE],
     success |-> FALSE, order |-> i]

\* ProcessorError.__str__: "[name] (path) message", empty parts left out
ErrorStr(message, processor_name, file_path) ==
    (IF processor_name # "" THEN <<processor_name>> ELSE <<>>)
    \o (IF file_path # "" THEN <<file_path>> ELSE <<>>)
    \o <<message>>

ProcessorError(message, p, f) == [cls |-> "ProcessorError", text |-> ErrorStr(message, p, f)]

ProcessorTimeout(p, f) ==
    [cls |-> "ProcessorTimeout", text |-> ErrorStr("Processor timed out after timeout seconds", p, f)]

\* the exception dict.update raises for an argument that is no mapping
ValueError == [cls |-> "ValueError", text |-> <<"dictionary update sequence element has length 1; 2 is required">>]

\* except clauses in which Exception comes first and takes the timeout too
HandlerExceptionFirst(exc) == "error"

\* except clauses that take ProcessorTimeout only
HandlerTimeoutOnly(exc) == IF exc.cls = "ProcessorTimeout" THEN "timeout" ELSE "propagate"

\* the except clause of process_file that takes an exception raised in the
\* loop body: ProcessorTimeout first, then Exception
HandlerFor(exc) ==
    IF exc.cls = "ProcessorTimeout" THEN "timeout"
    ELSE IF exc.cls \in {"ProcessorError", "ValueError"} THEN "error"
    ELSE "propagate"

\* target() of _execute_processor: what it leaves in `result` for a value
\* that process() returned
Normalize(v) ==
    IF v.type = "ProcessorResult" THEN v
    ELSE IF v.type = "dict"
         THEN ProcessorResult(DictGet(v, "success", TRUE), DictGet(v, "message", <<"">>),
                              DictGet(v, "context", PyDict(EmptyItems)))
         ELSE ProcessorResult(TRUE,
                              IF v.type # "NoneType" /\ Truthy(v) THEN <<v.text>> ELSE <<"Processed">>,
                              NoneValue)

\* the shared mapping itself is handed over
ShareContext(items) == [alias |-> TRUE, items |-> items]

\* context.copy(): a new mapping with the same items
CopyContext(items) == [alias |-> FALSE, items |-> items]

(***************************************************************************)
(* State                                                                   *)
(***************************************************************************)
NoException == [cls |-> "None"]

\* chain positions: a chain holds each registered processor at most once
Positions == 1..Cardinality(ProcIds)

NoThread == [st |-> "unborn", alias |-> FALSE, items |-> EmptyItems, mutated |-> FALSE,
             result |-> NoneValue, exception |-> NoException]

NoRecord == [none |-> TRUE]

IdleCall == [pc |-> "idle", file_path |-> "", processor_filter |-> "None", procs |-> <<>>, i |-> 0, results |-> <<>>,
             context |-> EmptyItems, overall_success |-> TRUE, ret |-> NoRecord]

ZeroStats == [files_processed |-> 0, total_processors_run |-> 0, successful_processors |-> 0,
              failed_processors |-> 0, timeouts |-> 0]

Inc(st, key) == [st EXCEPT ![key] = @ + 1]

\* a join that takes every thread for ended
IsAliveNever(t) == FALSE

\* thread.is_alive()
IsAlive(t) == t.st \in {"started", "running"}

\* the caller of position i of c's chain is still inside thread.join for it
Awaited(c, i) == call[c].pc = "join" /\ call[c].i = i

(***************************************************************************)
(* Paths seen by the watchers                                              *)
(***************************************************************************)
\* src_path of the events and entries of the watched tree: a supported file,
\* the same file reached through a symlinked directory, an upper-case
\* extension, a dotfile, a temporary file of imgc, an unsupported file
WatchedPaths == {"x.t", "l/x.t", "y.T", ".h.t", "x.imgc.tmp.t", "n.z"}

\* directories of the watched tree, as src_path of a directory event
Dirs == {"d.t"}

\* Path.name
Name(path) == IF path = "l/x.t" THEN "x.t" ELSE path

\* ".imgc.tmp" in name
HasTmpMarker(name) == name = "x.imgc.tmp.t"

\* name.startswith(".")
StartsWithDot(name) == name = ".h.t"

\* str(path.resolve()): l is a symlink to the watched root
Resolve(path) == IF path = "l/x.t" THEN "x.t" ELSE path

\* the keys of handler._processed
ResolvedPaths == {Resolve(path) : path \in WatchedPaths}

(***************************************************************************)
(* Handler state                                                           *)
(***************************************************************************)
\* threads that call _should_process: the event-delivery thread of the
\* observer and a worker of the bulk pool
Deliverers == {"delivery", "worker"}

\* a frame of _should_process: `last` is self._processed.get(key), which is
\* None when last_none holds
IdleShould == [pc |-> "idle", key |-> "", now |-> 0, last_none |-> TRUE, last |-> 0,
               ret |-> FALSE]

\* an empty dict
EmptyDict == [k \in {} |-> 0]

\* the threads started by on_created / on_modified
Pipelines == {"event", "event2"}

\* a frame of _process_file_safely and of the _wait_for_stable_file it calls:
\* prev_size is None when prev_none holds; `missed` and `polled` tell whether a
\* stat() of this wait failed and whether one was made
NoPipeline == [pc |-> "unborn", file_path |-> "", attempt |-> 0, prev_none |-> TRUE,
               prev_size |-> 0, missed |-> FALSE, polled |-> FALSE, stable |-> FALSE,
               outcome |-> ""]

\* the frame of on_created / on_modified; between events it keeps the path of
\* the last event and whether the handler returned without accepting it.
\* start, last_size and stable_start (None when stable_none holds) are the
\* locals of wait_for_stable_file of imgc/watcher.py, which ImageHandler
\* calls in this thread.
IdleDelivery == [pc |-> "idle", src_path |-> "", ignored |-> FALSE, started |-> "",
                 start |-> 0, last_size |-> -1, stable_none |-> TRUE, stable_start |-> 0]

\* nothing was written from outside and no event waits
NoEvents == [queue |-> <<>>, writes |-> 0]

\* PluginManager.get_supported_extensions
get_supported_extensions ==
    UNION {{Lower(e) : e \in SupportedExtensions(processors[k])} : k \in DOMAIN processors}

\* the frame of start_watching and of the process_existing_files it calls:
\* files is supported_files, k the next file of the sequential path, results
\* the number of records collected and records the list that
\* process_multiple_files builds
IdleMain == [pc |-> "idle", process_existing |-> FALSE, workers |-> 1, files |-> <<>>,
             k |-> 0, results |-> 0, records |-> <<>>]

\* every watched path is a file of size 1
WholeTree == [path \in WatchedPaths |-> 1]

\* discover_plugins is not running; files are the plugin files on disk, k is
\* the next one to load and `by` tells whether PluginManager or
\* PluginWatcher.reload_plugins made the call
IdleScan == [pc |-> "idle", files |-> <<>>, k |-> 0, by |-> "manager"]

\* no query of the registry was made; else its file, what
\* get_processors_for_file and get_supported_extensions returned, and whether
\* discover_plugins was under way
IdleReader == [pc |-> "idle", file_path |-> "", during |-> FALSE, ret |-> <<>>,
               extensions |-> {}]

\* the counter updates of a chain run, seen one bytecode at a time: no run is
\* under way; else todo are the counters the run has yet to add one to, tmp
\* is the value it loaded, held tells whether it is inside `with
\* self._semaphore`; runs and counted are the runs it has completed and the
\* additions it has made
IdleInc == [pc |-> "idle", todo |-> <<>>, tmp |-> 0, held |-> FALSE, runs |-> 0,
            counted |-> ZeroStats]

\* PluginManager.__init__: failed_plugins = {}
ManagerInit ==
    /\ failed_plugins = EmptyDict
    /\ scan = IdleScan
    /\ reader = IdleReader
    /\ inc = [c \in Callers |-> IdleInc]

\* the handler right after __init__, at some time of day
HandlerInit(cooldowns, stables, delays, trees) ==
    /\ now = 1
    /\ cooldown \in cooldowns
    /\ processed = EmptyDict
    /\ sp = [t \in Deliverers |-> IdleShould]
    /\ log = {}
    /\ stop_event = FALSE
    /\ stable_seconds \in stables
    /\ new_delay \in delays
    /\ pipeline = [t \in Pipelines |-> NoPipeline]
    /\ fs \in trees
    /\ delivery = IdleDelivery
    /\ supported_extensions = get_supported_extensions
    /\ events = NoEvents
    /\ observer = "created"
    /\ main = IdleMain
    /\ tasks = <<>>
    /\ created = EmptyDict
    /\ ManagerInit

\* the handler with the defaults of PluginFileHandler.__init__
HandlerDefault ==
    HandlerInit({DefaultCooldown}, {DefaultStableSeconds}, {DefaultNewDelay}, {WholeTree})

\* PluginManager.__init__ and ProcessorChain.__init__ with the default
\* max_concurrent
Init ==
    /\ processors = <<>>
    /\ registry_state = "Empty"
    /\ max_concurrent = DefaultMaxConcurrent
    /\ semaphore = max_concurrent
    /\ stats = ZeroStats
    /\ call = [c \in Callers |-> IdleCall]
    /\ thread = [c \in Callers |-> [i \in Positions |-> NoThread]]
    /\ HandlerDefault

\* the plugins the watcher finds in its plugin directories
WatcherPlugins == {"A", "B"}

\* PluginWatcher.__init__: the plugins are discovered, then the handler builds
\* its ProcessorChain with the max_concurrent it was given
InitWatcher ==
    /\ processors \in {SortByPriority(o) :
                           o \in {d \in DiscoveryOrders : {d[k] : k \in DOMAIN d} = WatcherPlugins}}
    /\ registry_state = "Ready"
    /\ max_concurrent \in 1..MaxPermits
    /\ semaphore = max_concurrent
    /\ stats = ZeroStats
    /\ call = [c \in Callers |-> IdleCall]
    /\ thread = [c \in Callers |-> [i \in Positions |-> NoThread]]
    /\ HandlerDefault

(***************************************************************************)
(* ProcessorChain.process_file                                             *)
(***************************************************************************)
\* entry of process_file up to the with statement
process_file(c, f, flt) ==
    /\ registry_state = "Ready"
    /\ call[c].pc = "idle"
    /\ LET procs == ApplyFilter(get_processors_for_file(f), flt)
       IN  call' = [call EXCEPT ![c] =
                IF procs = <<>>
                THEN [@ EXCEPT !.pc = "returned", !.file_path = f, !.processor_filter = flt,
                               !.ret = NoProcessorsRecord(f)]
                ELSE [@ EXCEPT !.pc = "acquire", !.file_path = f, !.processor_filter = flt,
                               !.procs = procs, !.i = 1,
                               !.results = <<>>, !.context = SeedContext(f, c),
                               !.overall_success = TRUE]]
    /\ UNCHANGED <<processors, registry_state, max_concurrent, semaphore, stats, thread>>

\* process_file raises ahead of the with statement: the list of names for
\* the debug message is built from p.name of every processor of the chain,
\* and a name property is plugin code
process_file_raises(c, f) ==
    /\ registry_state = "Ready"
    /\ call[c].pc = "idle"
    /\ get_processors_for_file(f) # <<>>
    /\ call' = [call EXCEPT ![c] = [@ EXCEPT !.pc = "raised", !.file_path = f]]
    /\ UNCHANGED <<processors, registry_state, max_concurrent, semaphore, stats, thread>>

\* a semaphore that never blocks
CanAcquireAlways(value) == TRUE

\* Semaphore.acquire does not block
CanAcquire(value) == value > 0

\* with self._semaphore: entry
acquire(c) ==
    /\ call[c].pc = "acquire"
    /\ CanAcquire(semaphore)
    /\ semaphore' = semaphore - 1
    /\ call' = [call EXCEPT ![c].pc = "start"]
    /\ UNCHANGED <<processors, registry_state, max_concurrent, stats, thread>>

\* _execute_processor: thread.start()
start_thread(c) ==
    /\ call[c].pc = "start"
    /\ thread' = [thread EXCEPT ![c][call[c].i] = [NoThread EXCEPT !.st = "started"]]
    /\ call' = [call EXCEPT ![c].pc = "join"]
    /\ UNCHANGED <<processors, registry_state, max_concurrent, semaphore, stats>>

\* target(): the argument context.copy() is evaluated in the new thread
target_copy(c, i) ==
    /\ thread[c][i].st = "started"
    /\ LET handed == CopyContext(call[c].context)
       IN  thread' = [thread EXCEPT ![c][i] =
                [@ EXCEPT !.st = "running", !.alias = handed.alias, !.items = handed.items]]
    /\ UNCHANGED <<processors, registry_state, max_concurrent, semaphore, stats, call>>

\* what a processor may do to the mapping it was passed: add a key, change
\* one and remove one
MutateItems(items) ==
    [items EXCEPT !["scratch"] = "mut", !["original_path"] = "mut", !["chain_start_time"] = Absent]

\* process() writes to the mapping it was passed
target_mutate(c, i) ==
    /\ thread[c][i].st = "running"
    /\ ~thread[c][i].mutated
    /\ IF thread[c][i].alias
       THEN /\ call' = [call EXCEPT ![c].context = MutateItems(@)]
            /\ thread' = [thread EXCEPT ![c][i].mutated = TRUE]
       ELSE /\ thread' = [thread EXCEPT ![c][i] = [@ EXCEPT !.mutated = TRUE, !.items = MutateItems(@)]]
            /\ UNCHANGED call
    /\ UNCHANGED <<processors, registry_state, max_concurrent, semaphore, stats>>

\* process() returns v and target() normalises it; the cells of an abandoned
\* invocation are read by nobody
target_return(c, i, v) ==
    /\ thread[c][i].st = "running"
    /\ thread' = [thread EXCEPT ![c][i] =
            [@ EXCEPT !.st = "finished", !.items = EmptyItems,
                      !.result = IF Awaited(c, i) THEN Normalize(v) ELSE NoneValue]]
    /\ UNCHANGED <<processors, registry_state, max_concurrent, semaphore, stats, call>>

\* process() raises Exception(m) and target() stores it
target_raise(c, i, m) ==
    /\ thread[c][i].st = "running"
    /\ thread' = [thread EXCEPT ![c][i] =
            [@ EXCEPT !.st = "finished", !.items = EmptyItems,
                      !.exception = IF Awaited(c, i) THEN [cls |-> "Exception", text |-> m]
                                    ELSE NoException]]
    /\ UNCHANGED <<processors, registry_state, max_concurrent, semaphore, stats, call>>

\* _execute_processor after a join that found the thread ended: the result
\* it returns or the exception it raises (join_finished then drops the cell:
\* the frame of _execute_processor is gone)
ExecuteOutcome(t, p, f) ==
    IF t.exception.cls # "None"
    THEN [raised |-> TRUE, exc |-> ProcessorError(t.exception.text, p, f)]
    ELSE IF t.result.type = "NoneType"
         THEN [raised |-> TRUE, exc |-> ProcessorError("Processor returned None", p, f)]
         ELSE [raised |-> FALSE, result |-> t.result]

\* the loop body of process_file for a result that _execute_processor
\* returned: the frame and the counters after it, or the exception it raises
BodyAfterReturn(fr, st, p, result) ==
    LET appended == Append(fr.results, ResultEntry(p, fr.i, result))
    IN  IF result.success /\ Truthy(result.context) /\ result.context.type # "dict"
        THEN [raised |-> TRUE, exc |-> ValueError,
              frame |-> [fr EXCEPT !.results = appended], stats |-> st]
        ELSE [raised |-> FALSE,
              frame |-> [fr EXCEPT !.results = appended,
                                   !.context = IF result.success /\ Truthy(result.context)
                                               THEN DictUpdate(@, result.context.items) ELSE @,
                                   !.overall_success = IF result.success THEN @ ELSE FALSE],
              stats |-> IF result.success
                        THEN Inc(Inc(st, "total_processors_run"), "successful_processors")
                        ELSE Inc(Inc(st, "total_processors_run"), "failed_processors")]

\* the except clauses of process_file
BodyAfterRaise(fr, st, p, exc) ==
    CASE HandlerFor(exc) = "timeout" ->
            [propagated |-> FALSE,
             frame |-> [fr EXCEPT !.results = Append(@, TimeoutEntry(p, fr.i, exc.text)),
                                  !.overall_success = FALSE],
             stats |-> Inc(Inc(st, "timeouts"), "failed_processors")]
      [] HandlerFor(exc) = "error" ->
            [propagated |-> FALSE,
             frame |-> [fr EXCEPT !.results = Append(@, ErrorEntry(p, fr.i, exc.text)),
                                  !.overall_success = FALSE],
             stats |-> Inc(st, "failed_processors")]
      [] OTHER -> [propagated |-> TRUE, frame |-> fr, stats |-> st]

\* a loop that stops at the first processor that did not succeed
NextStepStopsOnFailure(fr) ==
    IF fr.i < Len(fr.procs) /\ fr.overall_success THEN [fr EXCEPT !.pc = "start", !.i = @ + 1]
    ELSE [fr EXCEPT !.pc = "release"]

\* the for loop goes on to the next processor or leaves the with block
NextStep(fr) == IF fr.i < Len(fr.procs) THEN [fr EXCEPT !.pc = "start", !.i = @ + 1]
                ELSE [fr EXCEPT !.pc = "release"]

\* a with statement whose exit keeps the permit
ReleasedNever(value) == value

\* Semaphore.__exit__: release() gives the permit back, however the with
\* block was left
Released(value) == value + 1

\* one pass of the loop body once _execute_processor has ended with `outcome`
LoopBody(c, outcome) ==
    LET fr == call[c]
        p == fr.procs[fr.i]
        first == IF outcome.raised THEN [raised |-> TRUE, exc |-> outcome.exc, frame |-> fr, stats |-> stats]
                 ELSE BodyAfterReturn(fr, stats, p, outcome.result)
        last == IF first.raised THEN BodyAfterRaise(first.frame, first.stats, p, first.exc)
                ELSE [propagated |-> FALSE, frame |-> first.frame, stats |-> first.stats]
    IN  /\ stats' = last.stats
        /\ IF last.propagated
           THEN /\ call' = [call EXCEPT ![c] = [last.frame EXCEPT !.pc = "raised"]]
                /\ semaphore' = Released(semaphore)
           ELSE /\ call' = [call EXCEPT ![c] = NextStep(last.frame)]
                /\ UNCHANGED semaphore

\* thread.join(timeout) returns and the thread has ended
join_finished(c) ==
    /\ call[c].pc = "join"
    /\ ~IsAlive(thread[c][call[c].i])
    /\ LoopBody(c, ExecuteOutcome(thread[c][call[c].i], call[c].procs[call[c].i], call[c].file_path))
    /\ thread' = [thread EXCEPT ![c][call[c].i] = [@ EXCEPT !.result = NoneValue]]
    /\ UNCHANGED <<processors, registry_state, max_concurrent>>

\* thread.join(timeout) returns and the thread is still alive
join_timeout(c) ==
    /\ call[c].pc = "join"
    /\ IsAlive(thread[c][call[c].i])
    /\ LoopBody(c, [raised |-> TRUE,
                    exc |-> ProcessorTimeout(call[c].procs[call[c].i], call[c].file_path)])
    /\ UNCHANGED <<processors, registry_state, max_concurrent, thread>>

\* the with block is left
release(c) ==
    /\ call[c].pc = "release"
    /\ semaphore' = Released(semaphore)
    /\ call' = [call EXCEPT ![c].pc = "return"]
    /\ UNCHANGED <<processors, registry_state, max_concurrent, stats, thread>>

\* the tail of process_file: files_processed and the record
return_record(c) ==
    /\ call[c].pc = "return"
    /\ stats' = Inc(stats, "files_processed")
    /\ call' = [call EXCEPT ![c] =
            [@ EXCEPT !.pc = "returned",
                      !.ret = ChainRecord(call[c].file_path, call[c].procs, call[c].results,
                                          call[c].overall_success)]]
    /\ UNCHANGED <<processors, registry_state, max_concurrent, semaphore, thread>>

\* a user thread drives one ProcessorChain
Next ==
    /\ UNCHANGED handler_vars
    /\ \/ \E order \in DiscoveryOrders : discover_plugins(order)
       \/ \E f \in Files, flt \in Filters : process_file("main", f, flt)
       \/ acquire("main")
       \/ start_thread("main")
       \/ \E i \in Positions : target_copy("main", i)
       \/ \E i \in Positions : target_mutate("main", i)
       \/ \E i \in DOMAIN call["main"].procs :
               \E v \in ReturnValues(call["main"].procs[i]) : target_return("main", i, v)
       \/ \E i \in DOMAIN call["main"].procs :
               \E m \in RaisedMessages(call["main"].procs[i]) : target_raise("main", i, m)
       \/ join_finished("main")
       \/ join_timeout("main")
       \/ release("main")
       \/ return_record("main")

Spec == Init /\ [][Next]_vars

\* the steps of the thread that called process_file
CallerStep(c) ==
    acquire(c) \/ start_thread(c) \/ join_finished(c) \/ join_timeout(c) \/ release(c)
        \/ return_record(c)

\* the calling thread keeps being scheduled and join(timeout) returns once the
\* timeout is over; nothing makes process() of a plugin end
SpecFair == Spec /\ WF_vars(CallerStep("main") /\ UNCHANGED handler_vars)

\* the callers of plugin_watcher.py: _process_file_safely and the bulk pool
\* call process_file without a filter.  A processor's writes to its private
\* copy of the context reach no other thread, so they are not followed here.
WatcherCallers == {"event", "bulk"}

NextWatcher ==
    /\ UNCHANGED handler_vars
    /\ \/ \E c \in WatcherCallers, f \in Files : process_file(c, f, "None")
       \/ \E c \in WatcherCallers : acquire(c)
       \/ \E c \in WatcherCallers : start_thread(c)
       \/ \E c \in WatcherCallers, i \in Positions : target_copy(c, i)
       \/ \E c \in WatcherCallers : \E i \in DOMAIN call[c].procs :
               \E v \in ReturnValues(call[c].procs[i]) : target_return(c, i, v)
       \/ \E c \in WatcherCallers : \E i \in DOMAIN call[c].procs :
               \E m \in RaisedMessages(call[c].procs[i]) : target_raise(c, i, m)
       \/ \E c \in WatcherCallers : join_finished(c)
       \/ \E c \in WatcherCallers : join_timeout(c)
       \/ \E c \in WatcherCallers : release(c)
       \/ \E c \in WatcherCallers : return_record(c)

SpecWatcher == InitWatcher /\ [][NextWatcher]_vars

(***************************************************************************)
(* Properties of chain runs                                                *)
(***************************************************************************)
Returned(c) == call[c].pc = "returned"

Range(s) == {s[k] : k \in DOMAIN s}

\* the registered processors that apply to the file of c's call and pass
\* its filter
Applicable(c) ==
    {p \in Range(processors) :
        CanProcess(p, call[c].file_path) /\ FilterAccepts(call[c].processor_filter, p)}

HasMarker(entry, marker) == marker \in DOMAIN entry.result /\ entry.result[marker]

\* the entries of position i in a list of result entries
EntriesOf(results, i) == {k \in DOMAIN results : results[k].order = i}

\* the caller has left _execute_processor for position i
Joined(c, i) ==
    /\ i \in DOMAIN call[c].procs
    /\ \/ call[c].i > i
       \/ call[c].i = i /\ call[c].pc \in {"release", "return", "returned", "raised"}

\* position i was abandoned on timeout
TimedOut(c, i) == \E k \in EntriesOf(call[c].results, i) : HasMarker(call[c].results[k], "timeout")

\* C1: in every record process_file returns, every applicable processor has
\* an entry, and the entry of a processor of lower priority value comes before
\* the entry of every applicable processor of higher priority value,
\* whatever order discovery registered them in.
C1_PriorityOrder ==
    \A c \in Callers : Returned(c) =>
        LET r == call[c].ret.results
        IN  /\ {r[k].processor : k \in DOMAIN r} = Applicable(c)
            /\ \A a, b \in DOMAIN r :
                   Priority(r[a].processor) < Priority(r[b].processor) => a < b

\* a run over all three processors has returned
C1_Witness ==
    /\ Returned("main")
    /\ Applicable("main") = ProcIds
    /\ Len(call["main"].ret.results) >= 3

\* C2: a processor that raised from process() gets exactly one entry, failed,
\* with the error marker and the error's message; every later processor of
\* the chain is still invoked; the record's success is false.
C2_FailureIsolated ==
    \A c \in Callers : \A i \in DOMAIN call[c].procs :
        (thread[c][i].exception.cls # "None" /\ Joined(c, i)) =>
            LET r == call[c].results
                mine == EntriesOf(r, i)
            IN  /\ Cardinality(mine) = 1
                /\ \A k \in mine :
                      /\ r[k].processor = call[c].procs[i]
                      /\ ~r[k].success /\ ~r[k].result.success
                      /\ HasMarker(r[k], "error")
                      /\ thread[c][i].exception.text \in Range(r[k].result.message)
                /\ ~call[c].overall_success
                /\ call[c].pc # "raised"
                /\ Returned(c) =>
                      /\ ~call[c].ret.success
                      /\ call[c].ret.results = r
                      /\ \A j \in DOMAIN call[c].procs : j > i => thread[c][j].st # "unborn"

\* the first processor raised and a later one ran and succeeded
C2_Witness ==
    /\ Returned("main")
    /\ thread["main"][1].exception.cls # "None"
    /\ \E k \in DOMAIN call["main"].ret.results :
          call["main"].ret.results[k].order > 1 /\ call["main"].ret.results[k].success

\* C3: when the timeout expires on a living invocation, that step appends a
\* failed entry with the timeout marker for the processor, adds one to the
\* timeouts counter, leaves the invocation thread running and moves on to the
\* next processor or out of the loop; a join is never stuck on a thread
\* that does not end, so a chain run that waits in a join always comes to
\* return its record, whether or not the invocation threads ever end.
C3_TimeoutAbandons ==
    /\ \A c \in Callers : (call[c].pc = "join") ~> Returned(c)
    /\ [](\A c \in Callers : call[c].pc = "join" => ENABLED (join_finished(c) \/ join_timeout(c)))
    /\ [][\A c \in Callers :
            (call[c].pc = "join" /\ IsAlive(thread[c][call[c].i]) /\ call'[c] # call[c]) =>
                LET i == call[c].i
                    r == call'[c].results
                IN  /\ Len(r) = Len(call[c].results) + 1
                    /\ SubSeq(r, 1, Len(r) - 1) = call[c].results
                    /\ r[Len(r)].processor = call[c].procs[i]
                    /\ r[Len(r)].order = i
                    /\ ~r[Len(r)].success
                    /\ HasMarker(r[Len(r)], "timeout")
                    /\ stats'.timeouts = stats.timeouts + 1
                    /\ stats'.failed_processors = stats.failed_processors + 1
                    /\ thread' = thread
                    /\ ~call'[c].overall_success
                    /\ call'[c].pc = IF i < Len(call[c].procs) THEN "start" ELSE "release"
                    /\ call'[c].i = IF i < Len(call[c].procs) THEN i + 1 ELSE i]_vars

\* a run has returned while an invocation it abandoned is still running
C3_Witness ==
    /\ Returned("main")
    /\ \E i \in DOMAIN call["main"].procs : TimedOut("main", i) /\ IsAlive(thread["main"][i])
    /\ stats.timeouts >= 1

C5_RecordCounts ==
    \A c \in Callers : Returned(c) =>
        LET r == call[c].ret
        IN  /\ {"successful_processors", "failed_processors"} \subseteq DOMAIN r
            /\ r.successful_processors + r.failed_processors = r.processors_run
            /\ r.success = (r.failed_processors = 0)

\* C6: when no registered processor applies to the file and passes the
\* filter, no invocation is started and the record has processors_run = 0,
\* no results and success = true.
C6_NoProcessors ==
    \A c \in Callers : (call[c].pc # "idle" /\ Applicable(c) = {}) =>
        /\ Returned(c)
        /\ call[c].ret.processors_run = 0
        /\ call[c].ret.results = <<>>
        /\ call[c].ret.success
        /\ \A i \in Positions : thread[c][i].st = "unborn"
        /\ stats.total_processors_run = 0

\* the filter removed every processor that is registered for the file
C6_Witness ==
    /\ Returned("main")
    /\ call["main"].processor_filter = "reject_all"
    /\ \E p \in Range(processors) : CanProcess(p, call["main"].file_path)
    /\ call["main"].ret.processors_run = 0

\* the seed overlaid, in order, with the context of every entry before
\* position k whose processor succeeded
RECURSIVE MergeEntries(_, _, _)
MergeEntries(results, k, items) ==
    IF results = <<>> THEN items
    ELSE LET e == results[1]
             merged == IF /\ e.order < k
                          /\ e.success
                          /\ "context" \in DOMAIN e.result
                          /\ e.result.context.type = "dict"
                       THEN DictUpdate(items, e.result.context.items) ELSE items
         IN  MergeEntries(Tail(results), k, merged)

ExpectedContext(c, k) == MergeEntries(call[c].results, k, SeedContext(call[c].file_path, c))

\* the mapping the invocation at position i of c's chain works on
View(c, i) == IF thread[c][i].alias THEN call[c].context ELSE thread[c][i].items

\* C7: the context the k-th processor was handed is the seed overlaid with
\* the contexts of the earlier processors that succeeded, and of no other.
C7_HandedContext ==
    \A c \in Callers : \A k \in DOMAIN call[c].procs :
        (thread[c][k].st = "running" /\ ~thread[c][k].mutated) =>
            View(c, k) = ExpectedContext(c, k)

\* C8: what a processor writes to the mapping it was passed reaches neither
\* the shared context, which holds only the seed and the merged contexts of
\* successful results, nor the mapping of any other processor.
C8_PrivateCopy ==
    \A c \in Callers : call[c].procs # <<>> =>
        /\ call[c].context = ExpectedContext(c, Len(call[c].procs) + 1)
        /\ \A i \in DOMAIN call[c].procs :
              (thread[c][i].st = "running" /\ ~thread[c][i].mutated) =>
                  /\ \A key \in Keys : View(c, i)[key] # "mut"
                  /\ View(c, i)["chain_start_time"] = c

\* a processor wrote to its mapping and a later one of the chain has been
\* handed its own
C8_Witness ==
    \E i, j \in DOMAIN call["main"].procs :
        /\ i < j
        /\ thread["main"][i].mutated
        /\ ~TimedOut("main", i)
        /\ thread["main"][j].st = "running"
        /\ ~thread["main"][j].mutated

\* C9 as claimed: at no moment are two invocations of one chain run alive.
C9_NeverOverlap ==
    \A c \in Callers : Cardinality({i \in Positions : IsAlive(thread[c][i])}) <= 1

\* C9 amended: an invocation is started only when every earlier one of the
\* chain has ended or was abandoned on timeout, and in ascending priority
\* order; so invocations that did not time out never overlap.
C9_SerialUnlessAbandoned ==
    \A c \in Callers : \A i, j \in DOMAIN call[c].procs :
        (i < j /\ thread[c][j].st # "unborn") =>
            /\ thread[c][i].st = "finished" \/ TimedOut(c, i)
            /\ Priority(call[c].procs[i]) <= Priority(call[c].procs[j])

\* the third invocation runs after the first ended and while the abandoned
\* second is still running
C9_Witness ==
    /\ thread["main"][1].st = "finished" /\ ~TimedOut("main", 1)
    /\ thread["main"][2].st = "running" /\ TimedOut("main", 2)
    /\ thread["main"][3].st = "running" /\ ~TimedOut("main", 3)

\* the chain runs inside the with block
InsideWith == {c \in Callers : call[c].pc \in {"start", "join", "release"}}

CooldownPaths == {"x.t", "l/x.t", "y.T"}

\* a file of the watched tree and the same file as an event names it
RacePaths == {"x.t", "l/x.t"}

\* time.time() moves on
Tick ==
    /\ now < MaxTime
    /\ now' = now + 1
    /\ UNCHANGED <<cooldown, processed, sp, log>>

\* now = time.time(); key = str(path.resolve())
should_enter(t, path) ==
    /\ sp[t].pc \in {"idle", "done"}
    /\ sp' = [sp EXCEPT ![t] = [IdleShould EXCEPT !.pc = "get", !.key = Resolve(path),
                                                  !.now = now]]
    /\ UNCHANGED <<now, cooldown, processed, log>>

\* last = self._processed.get(key)
should_get(t) ==
    /\ sp[t].pc = "get"
    /\ sp' = [sp EXCEPT ![t] =
            IF sp[t].key \in DOMAIN processed
            THEN [@ EXCEPT !.pc = "decide", !.last_none = FALSE, !.last = processed[sp[t].key]]
            ELSE [@ EXCEPT !.pc = "decide", !.last_none = TRUE]]
    /\ UNCHANGED <<now, cooldown, processed, log>>

\* `if last and (now - last) < self.cooldown: return False`, else True
ShouldAccept(last_none, last, tnow, cd) ==
    ~(~last_none /\ last # 0 /\ (tnow - last) < cd)

\* a filter that stamps the path on every event
StoredAlways(dict, key, tnow, accepted) ==
    [k \in DOMAIN dict \cup {key} |-> IF k = key THEN tnow ELSE dict[k]]

\* self._processed[key] = now, reached only when the event is accepted
StoredAfter(dict, key, tnow, accepted) ==
    IF accepted
    THEN [k \in DOMAIN dict \cup {key} |-> IF k = key THEN tnow ELSE dict[k]]
    ELSE dict

\* the check, the store and the return
should_decide(t) ==
    /\ sp[t].pc = "decide"
    /\ LET accepted == ShouldAccept(sp[t].last_none, sp[t].last, sp[t].now, cooldown)
       IN  /\ processed' = StoredAfter(processed, sp[t].key, sp[t].now, accepted)
           /\ sp' = [sp EXCEPT ![t] = [@ EXCEPT !.pc = "done", !.ret = accepted]]
           /\ log' = IF accepted
                     THEN log \cup {[by |-> t, key |-> sp[t].key, now |-> sp[t].now]}
                     ELSE log
    /\ UNCHANGED <<now, cooldown>>

\* the observer's event-delivery thread is the only caller in
\* plugin_watcher.py (on_created, on_modified)
NextCooldown ==
    /\ UNCHANGED <<chain_vars, pipeline_vars, event_vars, lifecycle_vars, manager_vars>>
    /\ \/ Tick
       \/ \E path \in CooldownPaths : should_enter("delivery", path)
       \/ should_get("delivery")
       \/ should_decide("delivery")

\* PluginFileHandler.__init__ with the cooldown it is given
InitCooldown ==
    /\ processors = <<>>
    /\ registry_state = "Empty"
    /\ max_concurrent = DefaultMaxConcurrent
    /\ semaphore = max_concurrent
    /\ stats = ZeroStats
    /\ call = [c \in Callers |-> IdleCall]
    /\ thread = [c \in Callers |-> [i \in Positions |-> NoThread]]
    /\ HandlerInit(0..MaxCooldown, {DefaultStableSeconds}, {DefaultNewDelay}, {WholeTree})

SpecCooldown == InitCooldown /\ [][NextCooldown]_vars

(***************************************************************************)
(* Properties of the cooldown filter                                       *)
(***************************************************************************)
\* the accepted calls for key that have returned
AcceptedFor(key) == {a \in log : a.key = key}

\* thread t returns from _should_process in this step
ShouldReturns(t) == sp[t].pc = "decide" /\ sp'[t].pc = "done"

Max(S) == CHOOSE m \in S : \A n \in S : n <= m

\* C11: with cooldown C, a call of _should_process made by the delivery thread
\* is accepted iff no call for the same resolved path was accepted less than C
\* before it; accepted timestamps of one path differ by at least C; a dropped
\* call leaves the stored timestamp as it is, and the stored timestamp is the
\* one of the latest accepted call.
C11_Cooldown ==
    /\ [][ShouldReturns("delivery") =>
            /\ sp'["delivery"].ret <=>
                    \A a \in AcceptedFor(sp["delivery"].key) :
                        sp["delivery"].now - a.now >= cooldown
            /\ ~sp'["delivery"].ret => processed' = processed
            /\ sp'["delivery"].ret =>
                    processed'[sp["delivery"].key] = sp["delivery"].now]_vars
    /\ [](\A a, b \in log :
            a.key = b.key /\ a.now < b.now => b.now - a.now >= cooldown)
    /\ [](\A k \in ResolvedPaths :
            /\ k \in DOMAIN processed <=> AcceptedFor(k) # {}
            /\ k \in DOMAIN processed => processed[k] = Max({a.now : a \in AcceptedFor(k)}))

\* one path was accepted, accepted again once the cooldown was over, and then
\* dropped inside the second cooldown
C11_Witness ==
    /\ cooldown > 0
    /\ sp["delivery"].pc = "done"
    /\ ~sp["delivery"].ret
    /\ \E a, b \in AcceptedFor(sp["delivery"].key) :
            /\ a.now < b.now
            /\ b.now < sp["delivery"].now
            /\ sp["delivery"].now - b.now < cooldown

(***************************************************************************)
(* _should_process under the callers of imgc/watcher.py                    *)
(***************************************************************************)
\* start_watch starts the observer and then runs process_existing in a
\* background thread: ImageHandler.on_created (delivery thread) and _process
\* (bulk worker) call _should_process of the one handler at the same time
NextRace ==
    /\ UNCHANGED <<chain_vars, pipeline_vars, event_vars, lifecycle_vars, manager_vars>>
    /\ \/ Tick
       \/ \E t \in Deliverers, path \in RacePaths : should_enter(t, path)
       \/ \E t \in Deliverers : should_get(t)
       \/ \E t \in Deliverers : should_decide(t)

SpecRace == InitCooldown /\ [][NextRace]_vars

\* C12: of the calls of _should_process made by the delivery thread and the
\* bulk workers for one resolved path, at most one is accepted within any
\* window of cooldown seconds.
C12_OneAcceptPerWindow ==
    \A a, b \in log :
        a # b /\ a.key = b.key /\ a.now <= b.now => b.now - a.now >= cooldown

(***************************************************************************)
(* PluginFileHandler._wait_for_stable_file                                 *)
(***************************************************************************)
\* a writer creates the file or changes its size
fs_write(path, size) ==
    /\ fs' = [q \in DOMAIN fs \cup {path} |-> IF q = path THEN size ELSE fs[q]]
    /\ UNCHANGED <<stop_event, stable_seconds, new_delay, pipeline>>

\* the file is removed
fs_unlink(path) ==
    /\ path \in DOMAIN fs
    /\ fs' = [q \in DOMAIN fs \ {path} |-> fs[q]]
    /\ UNCHANGED <<stop_event, stable_seconds, new_delay, pipeline>>

\* self.stop_event.set()
request_stop ==
    /\ ~stop_event
    /\ stop_event' = TRUE
    /\ UNCHANGED <<stable_seconds, new_delay, pipeline, fs>>

\* the wait returns `stable`
WaitReturn(fr, stable) == [fr EXCEPT !.pc = "waited", !.stable = stable]

\* a tracker without the fast path
FastPathNever(seconds) == FALSE

\* `if self.stable_seconds <= 0: return True`
FastPath(seconds) == seconds <= 0

\* entry of _wait_for_stable_file
wait_enter(t) ==
    /\ pipeline[t].pc = "wait"
    /\ pipeline' = [pipeline EXCEPT ![t] =
            IF FastPath(stable_seconds)
            THEN WaitReturn(@, TRUE)
            ELSE [@ EXCEPT !.pc = "loop", !.attempt = 0, !.prev_none = TRUE]]
    /\ UNCHANGED <<stop_event, stable_seconds, new_delay, fs>>

\* a loop without a last pass
ExhaustedNever(attempt) == FALSE

\* range(max_attempts) has no further value
Exhausted(attempt) == attempt = MaxAttempts

\* head of `for attempt in range(max_attempts)`, after the sleep of the pass
\* before, and the stop check of the pass
wait_loop(t) ==
    /\ pipeline[t].pc = "loop"
    /\ pipeline' = [pipeline EXCEPT ![t] =
            IF Exhausted(pipeline[t].attempt) THEN WaitReturn(@, FALSE)
            ELSE IF stop_event THEN WaitReturn(@, FALSE)
            ELSE [@ EXCEPT !.pc = "stat"]]
    /\ UNCHANGED <<stop_event, stable_seconds, new_delay, fs>>

\* a comparison that also accepts the first size seen
SameSizeOrFirst(fr, current_size) == fr.prev_none \/ current_size = fr.prev_size

\* `prev_size is not None and current_size == prev_size`
SameSize(fr, current_size) == ~fr.prev_none /\ current_size = fr.prev_size

\* file_path.stat().st_size and the comparison with prev_size; a stat that
\* fails is retried on the next pass unless this was the last one
wait_stat(t) ==
    /\ pipeline[t].pc = "stat"
    /\ LET fr == [pipeline[t] EXCEPT !.polled = TRUE]
           path == pipeline[t].file_path
       IN  pipeline' = [pipeline EXCEPT ![t] =
                IF path \notin DOMAIN fs
                THEN IF fr.attempt < MaxAttempts - 1
                     THEN [fr EXCEPT !.missed = TRUE, !.pc = "loop", !.attempt = @ + 1]
                     ELSE WaitReturn([fr EXCEPT !.missed = TRUE], FALSE)
                ELSE IF SameSize(fr, fs[path])
                     THEN WaitReturn(fr, TRUE)
                     ELSE [fr EXCEPT !.prev_none = FALSE, !.prev_size = fs[path],
                                     !.pc = "loop", !.attempt = @ + 1]]
    /\ UNCHANGED <<stop_event, stable_seconds, new_delay, fs>>

\* one thread waits for x.t while writers work on the file and stop may be
\* requested
NextStability ==
    /\ UNCHANGED <<chain_vars, cooldown_vars, event_vars, lifecycle_vars, manager_vars>>
    /\ \/ wait_enter("event")
       \/ wait_loop("event")
       \/ wait_stat("event")
       \/ \E size \in 0..MaxSize : fs_write("x.t", size)
       \/ fs_unlink("x.t")
       \/ request_stop

\* the trees in which x.t is missing or has some size
StabilityTrees == {EmptyDict} \cup {[path \in {"x.t"} |-> size] : size \in 0..MaxSize}

\* _wait_for_stable_file(x.t) is called on a handler of some stable_seconds
InitStability ==
    /\ processors = <<>>
    /\ registry_state = "Empty"
    /\ max_concurrent = DefaultMaxConcurrent
    /\ semaphore = max_concurrent
    /\ stats = ZeroStats
    /\ call = [c \in Callers |-> IdleCall]
    /\ thread = [c \in Callers |-> [i \in Positions |-> NoThread]]
    /\ now = 1
    /\ cooldown = DefaultCooldown
    /\ processed = EmptyDict
    /\ sp = [t \in Deliverers |-> IdleShould]
    /\ log = {}
    /\ stop_event = FALSE
    /\ stable_seconds \in 0..MaxStableSeconds
    /\ new_delay = DefaultNewDelay
    /\ pipeline = [t \in Pipelines |->
            IF t = "event" THEN [NoPipeline EXCEPT !.pc = "wait", !.file_path = "x.t"]
            ELSE NoPipeline]
    /\ fs \in StabilityTrees
    /\ delivery = IdleDelivery
    /\ supported_extensions = get_supported_extensions
    /\ events = NoEvents
    /\ observer = "created"
    /\ main = IdleMain
    /\ tasks = <<>>
    /\ created = EmptyDict
    /\ ManagerInit

SpecStability == InitStability /\ [][NextStability]_vars

(***************************************************************************)
(* Properties of the stability wait                                        *)
(***************************************************************************)
\* C19: with stable_seconds <= 0 the wait returns stable without a stat of the
\* file, whatever the file does.
C19_FastPath ==
    \A t \in Pipelines :
        stable_seconds <= 0 /\ pipeline[t].pc = "waited"
            => pipeline[t].stable /\ ~pipeline[t].polled

\* stable_seconds is 0, the file is not even there, and the wait said stable
C19_Witness ==
    /\ stable_seconds = 0
    /\ pipeline["event"].pc = "waited"
    /\ pipeline["event"].stable
    /\ "x.t" \notin DOMAIN fs

\* C20: a wait in which a stat of the file failed (the file was gone) reports
\* not-stable.
C20_FailsClosed ==
    \A t \in Pipelines :
        pipeline[t].pc = "waited" /\ pipeline[t].missed => ~pipeline[t].stable

\* the steps of the thread that waits
WaitStep(t) ==
    /\ UNCHANGED <<chain_vars, cooldown_vars, event_vars, lifecycle_vars, manager_vars>>
    /\ (wait_enter(t) \/ wait_loop(t) \/ wait_stat(t))

\* the waiting thread keeps being scheduled: its sleeps end
SpecStabilityFair == SpecStability /\ WF_vars(WaitStep("event"))

\* the wait of t is under way
Waiting(t) == pipeline[t].pc \in {"wait", "loop", "stat"}

\* the step is a poll of t that gets a size from the file
Observes(t) == pipeline[t].pc = "stat" /\ pipeline[t].file_path \in DOMAIN fs

\* the wait of t returns with this step
WaitReturns(t) == pipeline[t].pc # "waited" /\ pipeline'[t].pc = "waited"

\* C31: with stable_seconds > 0 the wait returns stable exactly with a poll
\* whose size equals the size of the observation before it: never with the
\* first observation, never while the last two observed sizes differ, and a
\* poll that does not return leaves its size as the one to compare with.
C31_StableIffSameSize ==
    [][\A t \in Pipelines : stable_seconds > 0 =>
            /\ WaitReturns(t) =>
                    (pipeline'[t].stable <=>
                        /\ Observes(t)
                        /\ ~pipeline[t].prev_none
                        /\ fs[pipeline[t].file_path] = pipeline[t].prev_size)
            /\ Observes(t) /\ ~pipeline[t].prev_none
                    /\ fs[pipeline[t].file_path] = pipeline[t].prev_size
                    /\ pipeline'[t] # pipeline[t]
                    => pipeline'[t].pc = "waited" /\ pipeline'[t].stable
            /\ Observes(t) /\ pipeline'[t].pc = "loop" =>
                    /\ ~pipeline'[t].prev_none
                    /\ pipeline'[t].prev_size = fs[pipeline[t].file_path]
            /\ ~Observes(t) /\ pipeline[t].pc \in {"loop", "stat"} =>
                    /\ pipeline'[t].prev_none = pipeline[t].prev_none
                    /\ pipeline'[t].prev_size = pipeline[t].prev_size]_vars

\* the sizes 1 and 2 were seen on the first two polls, the third poll saw 2
\* again and the wait said stable
C31_Witness ==
    /\ stable_seconds > 0
    /\ pipeline["event"].pc = "waited"
    /\ pipeline["event"].stable
    /\ pipeline["event"].attempt = 2
    /\ pipeline["event"].prev_size = 2
    /\ "x.t" \in DOMAIN fs
    /\ fs["x.t"] = 2

\* C21: the stability wait always terminates: it makes at most max_attempts
\* polls, a wait that used them all up reports not-stable, and every wait
\* comes to return a verdict whatever the writers of the file do
C21_WaitTerminates ==
    /\ [](\A t \in Pipelines : pipeline[t].attempt <= MaxAttempts)
    /\ [](\A t \in Pipelines :
            pipeline[t].pc = "waited" /\ pipeline[t].attempt = MaxAttempts => ~pipeline[t].stable)
    /\ \A t \in Pipelines : Waiting(t) ~> pipeline[t].pc = "waited"

\* the file was there at every poll, its size never settled, no stop was
\* requested, and after max_attempts polls the wait said not-stable
C21_Witness ==
    /\ pipeline["event"].pc = "waited"
    /\ pipeline["event"].attempt = MaxAttempts
    /\ ~pipeline["event"].stable
    /\ ~pipeline["event"].missed
    /\ ~stop_event

(***************************************************************************)
(* PluginFileHandler: on_created / on_modified and _process_file_safely    *)
(***************************************************************************)
\* src_path of the events the observer delivers
EventPaths == WatchedPaths \cup Dirs

\* a handler that takes its own temporary files for input
IsSupportedKeepsTmp(path) ==
    /\ ~StartsWithDot(Name(path))
    /\ Lower(Suffix(path)) \in supported_extensions

\* PluginFileHandler.is_supported_file
is_supported_file(path) ==
    /\ ~(HasTmpMarker(Name(path)) \/ StartsWithDot(Name(path)))
    /\ Lower(Suffix(path)) \in supported_extensions

\* on_created / on_modified up to the call of _should_process: directory
\* events and unsupported files are dropped.  An event is delivered while a
\* pipeline thread is left to start for it.
on_any_event(path) ==
    /\ delivery.pc = "idle"
    /\ \E t \in Pipelines : pipeline[t].pc = "unborn"
    /\ IF path \notin Dirs /\ is_supported_file(path)
       THEN /\ should_enter("delivery", path)
            /\ delivery' = [IdleDelivery EXCEPT !.pc = "should", !.src_path = path]
       ELSE /\ delivery' = [IdleDelivery EXCEPT !.src_path = path, !.ignored = TRUE]
            /\ UNCHANGED cooldown_vars
    /\ UNCHANGED <<chain_vars, pipeline_vars, supported_extensions, lifecycle_vars, manager_vars>>

\* an event that the tree's other users caused is delivered
on_event(path) == on_any_event(path) /\ UNCHANGED events

\* the two handlers differ in what they log
on_created(path) == on_event(path)

on_modified(path) == on_event(path)

\* _should_process has returned: a dropped event ends the handler, an
\* accepted one gets threading.Thread(target=_process_file_safely).start()
on_event_start ==
    /\ delivery.pc = "should"
    /\ sp["delivery"].pc = "done"
    /\ IF sp["delivery"].ret
       THEN LET t == CHOOSE u \in Pipelines : pipeline[u].pc = "unborn"
            IN  /\ pipeline' = [pipeline EXCEPT ![t] =
                        [NoPipeline EXCEPT !.pc = "begin", !.file_path = delivery.src_path]]
                /\ delivery' = [delivery EXCEPT !.pc = "started", !.started = t]
       ELSE /\ delivery' = [IdleDelivery EXCEPT !.src_path = delivery.src_path,
                                                !.ignored = TRUE]
            /\ UNCHANGED pipeline
    /\ UNCHANGED <<chain_vars, cooldown_vars, stop_event, stable_seconds, new_delay, fs,
                   supported_extensions, events, lifecycle_vars, manager_vars>>

\* Thread.start() returns once the new thread is started
StartReturns(fr) == TRUE

\* the handler returns to the observer
on_event_return ==
    /\ delivery.pc = "started"
    /\ StartReturns(pipeline[delivery.started])
    /\ delivery' = [IdleDelivery EXCEPT !.src_path = delivery.src_path]
    /\ UNCHANGED <<chain_vars, cooldown_vars, pipeline_vars, supported_extensions, events, lifecycle_vars, manager_vars>>

\* the pipeline thread is done and says why
PipelineEnd(fr, outcome) == [fr EXCEPT !.pc = "done", !.outcome = outcome]

\* `if self.new_delay > 0: time.sleep(self.new_delay)`
pipeline_begin(t) ==
    /\ pipeline[t].pc = "begin"
    /\ pipeline' = [pipeline EXCEPT ![t].pc = IF new_delay > 0 THEN "delay" ELSE "wait"]
    /\ UNCHANGED <<stop_event, stable_seconds, new_delay, fs>>

\* the sleep is over
pipeline_delay(t) ==
    /\ pipeline[t].pc = "delay"
    /\ pipeline' = [pipeline EXCEPT ![t].pc = "wait"]
    /\ UNCHANGED <<stop_event, stable_seconds, new_delay, fs>>

\* `if not self._wait_for_stable_file(file_path): return`
pipeline_waited(t) ==
    /\ pipeline[t].pc = "waited"
    /\ pipeline' = [pipeline EXCEPT ![t] =
            IF pipeline[t].stable THEN [@ EXCEPT !.pc = "stop_check"]
            ELSE PipelineEnd(@, "not_stable")]
    /\ UNCHANGED <<stop_event, stable_seconds, new_delay, fs>>

\* a pipeline that does not look at the flag before the chain
StopCheckSkipped(flag) == FALSE

\* `if self.stop_event and self.stop_event.is_set(): return`
StopCheck(flag) == flag

pipeline_stop_check(t) ==
    /\ pipeline[t].pc = "stop_check"
    /\ pipeline' = [pipeline EXCEPT ![t] =
            IF StopCheck(stop_event) THEN PipelineEnd(@, "stopped")
            ELSE [@ EXCEPT !.pc = "call"]]
    /\ UNCHANGED <<stop_event, stable_seconds, new_delay, fs>>

\* result = self.processor_chain.process_file(file_path): the call is made
pipeline_call(t) ==
    /\ pipeline[t].pc = "call"
    /\ process_file(t, pipeline[t].file_path, "None")
    /\ pipeline' = [pipeline EXCEPT ![t].pc = "chain"]
    /\ UNCHANGED <<cooldown_vars, stop_event, stable_seconds, new_delay, fs, event_vars, lifecycle_vars, manager_vars>>

\* the lines after the call: result["success"], then
\* result["successful_processors"], a KeyError of which is taken by the
\* `except Exception` of _process_file_safely
pipeline_result(t) ==
    /\ pipeline[t].pc = "chain"
    /\ call[t].pc = "returned"
    /\ pipeline' = [pipeline EXCEPT ![t] =
            IF ~call[t].ret.success THEN PipelineEnd(@, "failed")
            ELSE IF "successful_processors" \in DOMAIN call[t].ret
                 THEN PipelineEnd(@, "processed")
                 ELSE PipelineEnd(@, "error")]
    /\ UNCHANGED <<stop_event, stable_seconds, new_delay, fs>>

\* the plugins of the watcher whose events are followed
EventPlugins == <<"A">>

\* a plugin whose extensions make the handler accept x.t while its
\* can_process does not take the file (ImageProcessor.can_process looks at the
\* file itself, and a stat that fails there counts as 'does not apply')
StrictPlugins == <<"R">>

\* PluginWatcher.__init__ as main.py calls it (max_concurrent=1), with some
\* cooldown, stable_seconds and new_delay
InitEvents ==
    /\ processors \in {SortByPriority(EventPlugins), StrictPlugins}
    /\ registry_state = "Ready"
    /\ max_concurrent = DefaultMaxConcurrent
    /\ semaphore = max_concurrent
    /\ stats = ZeroStats
    /\ call = [c \in Callers |-> IdleCall]
    /\ thread = [c \in Callers |-> [i \in Positions |-> NoThread]]
    /\ HandlerInit({0, MaxCooldown}, 0..MaxStableSeconds, {DefaultNewDelay, 1}, {WholeTree})

\* the steps of the event-delivery thread
DeliveryStep ==
    \/ \E path \in EventPaths : on_created(path)
    \/ \E path \in EventPaths : on_modified(path)
    \/ /\ delivery.pc = "should"
       /\ should_get("delivery") \/ should_decide("delivery")
       /\ UNCHANGED <<chain_vars, pipeline_vars, event_vars, lifecycle_vars, manager_vars>>
    \/ on_event_start
    \/ on_event_return

\* the steps of pipeline thread t outside process_file
PipelineStep(t) ==
    \/ /\ UNCHANGED <<chain_vars, cooldown_vars, event_vars, lifecycle_vars, manager_vars>>
       /\ \/ pipeline_begin(t)
          \/ pipeline_delay(t)
          \/ wait_enter(t)
          \/ wait_loop(t)
          \/ wait_stat(t)
          \/ pipeline_waited(t)
          \/ pipeline_stop_check(t)
          \/ pipeline_result(t)
    \/ pipeline_call(t)

\* the steps of the chain run of pipeline thread t and of its invocation
\* threads
ChainStep(t) ==
    /\ UNCHANGED handler_vars
    /\ \/ acquire(t)
       \/ start_thread(t)
       \/ \E i \in Positions : target_copy(t, i)
       \/ \E i \in DOMAIN call[t].procs :
               \E v \in ReturnValues(call[t].procs[i]) : target_return(t, i, v)
       \/ \E i \in DOMAIN call[t].procs :
               \E m \in RaisedMessages(call[t].procs[i]) : target_raise(t, i, m)
       \/ join_finished(t)
       \/ join_timeout(t)
       \/ release(t)
       \/ return_record(t)

\* The events of a run arrive in a burst, within one reading of the clock:
\* with cooldown 0 every one of them is accepted, with a larger cooldown a
\* repeat for the same file is dropped.
NextEvents ==
    \/ DeliveryStep
    \/ \E t \in Pipelines : PipelineStep(t)
    \/ \E t \in Pipelines : ChainStep(t)
    \/ request_stop /\ UNCHANGED <<chain_vars, cooldown_vars, event_vars, lifecycle_vars, manager_vars>>

SpecEvents == InitEvents /\ [][NextEvents]_vars

(***************************************************************************)
(* Properties of the event handler and its pipelines                       *)
(***************************************************************************)
\* a pipeline (thread, stability wait or chain run) was started for path
Started(path) == \E t \in Pipelines : pipeline[t].pc # "unborn" /\ pipeline[t].file_path = path

\* C13: no pipeline is started for a temporary file of imgc, a dotfile, a
\* directory, or a path whose lower-cased extension no registered processor
\* supports.
C13_OnlyRelevant ==
    \A path \in EventPaths :
        Started(path) =>
            /\ ~HasTmpMarker(Name(path))
            /\ ~StartsWithDot(Name(path))
            /\ path \notin Dirs
            /\ Lower(Suffix(path)) \in
                   UNION {{Lower(e) : e \in SupportedExtensions(q)} : q \in Range(processors)}

\* an event for imgc's own temporary file, of a supported extension, was
\* dropped while a pipeline runs for another file
C13_Witness ==
    /\ delivery.pc = "idle"
    /\ delivery.ignored
    /\ delivery.src_path = "x.imgc.tmp.t"
    /\ Started("y.T")

\* the stages of a pipeline thread up to its stop check before the chain run
BeforeChain == {"begin", "delay", "wait", "loop", "stat", "waited", "stop_check"}

\* C15 as claimed: once the cancellation flag is set, a pipeline that has not
\* begun its chain run never invokes process_file.
C15_NoCallAfterStop ==
    [][\A t \in Pipelines :
          stop_event /\ pipeline[t].pc \notin {"chain", "done"} => pipeline'[t].pc # "chain"]_vars

\* C15: once the cancellation flag is set, a pipeline that has not yet passed
\* its stop check before the chain run stays short of process_file and ends
\* without an error, as stopped or as not stable.
C15_AbortsAtCheck ==
    [][\A t \in Pipelines :
          stop_event /\ pipeline[t].pc \in BeforeChain =>
              /\ pipeline'[t].pc \in BeforeChain \cup {"done"}
              /\ call'[t].pc = "idle"
              /\ pipeline'[t].pc = "done" =>
                     pipeline'[t].outcome \in {"stopped", "not_stable"}]_vars

\* the flag is set; one pipeline whose file was stable stopped at the check
\* before the chain, another left its stability wait
C15_Witness ==
    /\ stop_event
    /\ \E t, u \in Pipelines :
            /\ pipeline[t].pc = "done" /\ pipeline[t].outcome = "stopped"
            /\ pipeline[t].stable
            /\ call[t].pc = "idle"
            /\ pipeline[u].pc = "done" /\ pipeline[u].outcome = "not_stable"
            /\ pipeline[u].polled

(***************************************************************************)
(* ImageHandler.on_created (imgc/watcher.py)                               *)
(***************************************************************************)
IMAGE_EXTS == {".jpg", ".jpeg", ".png", ".webp", ".avif"}

is_image(path) == Lower(Suffix(path)) \in IMAGE_EXTS

\* src_path of the events the observer delivers to ImageHandler
ImagePaths == {"p.jpg", "n.z"} \cup Dirs

\* wait_for_stable_file default of timeout
WaitTimeout == 30

\* on_created up to the call of _should_process
legacy_on_created(path) ==
    /\ delivery.pc = "idle"
    /\ IF path \notin Dirs /\ is_image(path) /\ ~stop_event
       THEN /\ should_enter("delivery", path)
            /\ delivery' = [IdleDelivery EXCEPT !.pc = "should", !.src_path = path]
       ELSE /\ delivery' = [IdleDelivery EXCEPT !.src_path = path, !.ignored = TRUE]
            /\ UNCHANGED cooldown_vars
    /\ UNCHANGED <<chain_vars, pipeline_vars, supported_extensions, events, lifecycle_vars, manager_vars>>

\* _should_process has returned; an accepted event goes on in this thread
\* with `time.sleep(self.new_delay)` when new_delay > 0
legacy_accepted ==
    /\ delivery.pc = "should"
    /\ sp["delivery"].pc = "done"
    /\ delivery' = IF ~sp["delivery"].ret
                   THEN [IdleDelivery EXCEPT !.src_path = delivery.src_path, !.ignored = TRUE]
                   ELSE [delivery EXCEPT !.pc = IF new_delay > 0 THEN "delay" ELSE "check"]
    /\ UNCHANGED <<chain_vars, cooldown_vars, pipeline_vars, supported_extensions, events, lifecycle_vars, manager_vars>>

\* the sleep is over
legacy_delay ==
    /\ delivery.pc = "delay"
    /\ delivery' = [delivery EXCEPT !.pc = "check"]
    /\ UNCHANGED <<chain_vars, cooldown_vars, pipeline_vars, supported_extensions, events, lifecycle_vars, manager_vars>>

\* the second stop check, then entry of wait_for_stable_file
legacy_check ==
    /\ delivery.pc = "check"
    /\ delivery' = IF stop_event
                   THEN [IdleDelivery EXCEPT !.src_path = delivery.src_path]
                   ELSE [delivery EXCEPT !.pc = "wait", !.start = now, !.last_size = -1,
                                         !.stable_none = TRUE]
    /\ UNCHANGED <<chain_vars, cooldown_vars, pipeline_vars, supported_extensions, events, lifecycle_vars, manager_vars>>

\* one pass of the loop of wait_for_stable_file: a missing file ends the wait
\* as not stable; an unchanged size for stable_seconds ends it as stable
legacy_wait ==
    /\ delivery.pc = "wait"
    /\ LET path == delivery.src_path
           not_stable == [IdleDelivery EXCEPT !.src_path = delivery.src_path]
           same == fs[path] = delivery.last_size
           updated ==
               IF same
               THEN IF delivery.stable_none
                    THEN [delivery EXCEPT !.stable_none = FALSE, !.stable_start = now]
                    ELSE delivery
               ELSE [delivery EXCEPT !.stable_none = TRUE, !.stable_start = 0,
                                     !.last_size = fs[path]]
       IN  delivery' =
             IF path \notin DOMAIN fs THEN not_stable
             ELSE IF same /\ ~delivery.stable_none
                         /\ now - delivery.stable_start >= stable_seconds
                  THEN [delivery EXCEPT !.pc = "compress"]
                  ELSE IF now - delivery.start > WaitTimeout THEN not_stable
                       ELSE updated
    /\ UNCHANGED <<chain_vars, cooldown_vars, pipeline_vars, supported_extensions, events, lifecycle_vars, manager_vars>>

\* fut.result(timeout=...) returns the stats or raises what compress raised;
\* the with block is left at once because the worker is done
legacy_compressed ==
    /\ delivery.pc = "compress"
    /\ delivery' = [IdleDelivery EXCEPT !.src_path = delivery.src_path]
    /\ UNCHANGED <<chain_vars, cooldown_vars, pipeline_vars, supported_extensions, events, lifecycle_vars, manager_vars>>

\* fut.result(timeout=...) raises TimeoutError: the handler returns, and the
\* with block of the executor waits for the worker
legacy_compress_timeout ==
    /\ delivery.pc = "compress"
    /\ delivery' = [delivery EXCEPT !.pc = "shutdown"]
    /\ UNCHANGED <<chain_vars, cooldown_vars, pipeline_vars, supported_extensions, events, lifecycle_vars, manager_vars>>

\* compress ends at last and ThreadPoolExecutor.__exit__ returns
legacy_shutdown ==
    /\ delivery.pc = "shutdown"
    /\ delivery' = [IdleDelivery EXCEPT !.src_path = delivery.src_path]
    /\ UNCHANGED <<chain_vars, cooldown_vars, pipeline_vars, supported_extensions, events, lifecycle_vars, manager_vars>>

\* start_watch with some stable_seconds and new_delay (the cooldown of
\* ImageHandler is its default), on a tree that holds p.jpg or not
InitLegacy ==
    /\ processors = <<>>
    /\ registry_state = "Empty"
    /\ max_concurrent = DefaultMaxConcurrent
    /\ semaphore = max_concurrent
    /\ stats = ZeroStats
    /\ call = [c \in Callers |-> IdleCall]
    /\ thread = [c \in Callers |-> [i \in Positions |-> NoThread]]
    /\ HandlerInit({DefaultCooldown}, 0..MaxStableSeconds, {DefaultNewDelay, 1},
                   {EmptyDict, [path \in {"p.jpg"} |-> 1]})

NextLegacy ==
    \/ \E path \in ImagePaths : legacy_on_created(path)
    \/ /\ delivery.pc = "should"
       /\ should_get("delivery") \/ should_decide("delivery")
       /\ UNCHANGED <<chain_vars, pipeline_vars, event_vars, lifecycle_vars, manager_vars>>
    \/ legacy_accepted
    \/ legacy_delay
    \/ legacy_check
    \/ legacy_wait
    \/ legacy_compressed
    \/ legacy_compress_timeout
    \/ legacy_shutdown
    \/ Tick /\ UNCHANGED <<chain_vars, pipeline_vars, event_vars, lifecycle_vars, manager_vars>>
    \/ /\ UNCHANGED <<chain_vars, cooldown_vars, event_vars, lifecycle_vars, manager_vars>>
       /\ \/ \E size \in 1..MaxSize : fs_write("p.jpg", size)
          \/ fs_unlink("p.jpg")
          \/ request_stop

SpecLegacy == InitLegacy /\ [][NextLegacy]_vars

\* C14: the event-delivery thread is only ever idle, in the relevance and
\* cooldown checks of the handler, or starting the thread it hands the file
\* to; the delay, the stability wait and the execution run elsewhere.
C14_DeliveryNotBlocked == delivery.pc \in {"idle", "should", "started"}

(***************************************************************************)
(* PluginWatcher: start_watching, process_existing_files and stop          *)
(***************************************************************************)
\* the worker threads of ThreadPoolExecutor(max_workers=workers); with
\* workers = 1 the main thread makes the calls itself, as "bulk"
PoolWorkers == {"bulk", "bulk2"}

\* the order in which rglob yields the entries of the tree
WalkOrder == <<"x.t", "y.T", ".h.t", "x.imgc.tmp.t", "n.z">>

\* supported_files: the files of the tree that pass is_supported_file
supported_files == SelectSeq(WalkOrder, LAMBDA f : f \in DOMAIN fs /\ is_supported_file(f))

\* the stages of start_watching inside process_existing_files
BulkStages == {"seq", "submit", "as_completed", "shutdown"}

\* a future: "queued", "running" in worker `by`, or "done"; `seen` once
\* as_completed has yielded it
NewTask == [st |-> "queued", by |-> "", seen |-> FALSE]

\* start_watching(process_existing, workers) up to the first file
start_watching(process_existing, workers) ==
    /\ main.pc = "idle"
    /\ main' = [IdleMain EXCEPT
                   !.process_existing = process_existing,
                   !.workers = workers,
                   !.files = IF process_existing THEN supported_files ELSE <<>>,
                   !.k = 1,
                   !.pc = IF ~process_existing \/ supported_files = <<>>
                          THEN "observer_start"
                          ELSE IF workers = 1 THEN "seq" ELSE "submit"]
    /\ UNCHANGED <<chain_vars, cooldown_vars, pipeline_vars, event_vars, observer, tasks,
                   created, manager_vars>>

\* process_multiple_files: self.process_file(file_path, timeout) for the next
\* file
bulk_next ==
    /\ main.pc = "seq"
    /\ main.k <= Len(main.files)
    /\ process_file("bulk", main.files[main.k], "None")
    /\ UNCHANGED handler_vars

\* the call has returned: the record is collected and the frames of the call
\* are left
CallOver(c) ==
    /\ call' = [call EXCEPT ![c] = IdleCall]
    /\ thread' = [thread EXCEPT ![c] = [i \in Positions |-> NoThread]]
    /\ UNCHANGED <<processors, registry_state, max_concurrent, semaphore, stats>>

\* the record the except clause of process_multiple_files appends
FailedRecord(f) ==
    [file_path |-> f, processors_run |-> 0, results |-> <<>>, success |-> FALSE,
     message |-> <<"Chain execution failed">>]

\* the loop of process_multiple_files goes on with the next path; after the
\* last one the list is returned, to process_existing_files (which computes
\* its statistics and returns to start_watching) or to the caller
NextFile(fr, record) ==
    [fr EXCEPT !.records = Append(@, record), !.results = @ + 1, !.k = @ + 1,
               !.pc = IF fr.k < Len(fr.files) THEN "seq"
                      ELSE IF fr.process_existing THEN "observer_start" ELSE "returned"]

\* an except clause that gives the batch up
AfterRaiseAborts(fr, f) ==
    [fr EXCEPT !.records = Append(@, FailedRecord(f)), !.results = @ + 1,
               !.pc = IF fr.process_existing THEN "observer_start" ELSE "returned"]

\* `except Exception as e:` of process_multiple_files is inside the loop
AfterRaise(fr, f) == NextFile(fr, FailedRecord(f))

\* results.append(result)
bulk_collect ==
    /\ main.pc = "seq"
    /\ call["bulk"].pc = "returned"
    /\ CallOver("bulk")
    /\ main' = NextFile(main, call["bulk"].ret)
    /\ UNCHANGED <<cooldown_vars, pipeline_vars, event_vars, observer, tasks, created, manager_vars>>

\* process_file raised: the failed record is appended
bulk_except ==
    /\ main.pc = "seq"
    /\ call["bulk"].pc = "raised"
    /\ CallOver("bulk")
    /\ main' = AfterRaise(main, call["bulk"].file_path)
    /\ UNCHANGED <<cooldown_vars, pipeline_vars, event_vars, observer, tasks, created, manager_vars>>

\* executor.submit(process_file, file_path, timeout) for every file
pool_submit ==
    /\ main.pc = "submit"
    /\ tasks' = [k \in DOMAIN main.files |-> NewTask]
    /\ main' = [main EXCEPT !.pc = "as_completed"]
    /\ UNCHANGED <<chain_vars, cooldown_vars, pipeline_vars, event_vars, observer, created, manager_vars>>

\* the queued futures, oldest first
Queued == {k \in DOMAIN tasks : tasks[k].st = "queued"}

\* a free worker takes the oldest queued future and calls process_file
worker_take(w) ==
    /\ Queued # {}
    /\ \A k \in DOMAIN tasks : ~(tasks[k].st = "running" /\ tasks[k].by = w)
    /\ LET k == CHOOSE q \in Queued : \A r \in Queued : q <= r
       IN  /\ process_file(w, main.files[k], "None")
           /\ tasks' = [tasks EXCEPT ![k] = [@ EXCEPT !.st = "running", !.by = w]]
    /\ UNCHANGED <<cooldown_vars, pipeline_vars, event_vars, observer, main, created, manager_vars>>

\* process_file has returned in worker w: its future is done
worker_done(w) ==
    /\ call[w].pc = "returned"
    /\ \E k \in DOMAIN tasks :
            /\ tasks[k].st = "running" /\ tasks[k].by = w
            /\ tasks' = [tasks EXCEPT ![k].st = "done"]
    /\ CallOver(w)
    /\ UNCHANGED <<cooldown_vars, pipeline_vars, event_vars, observer, main, created, manager_vars>>

\* as_completed yields a finished future: the loop breaks when stop is
\* requested, else the record is collected; the loop ends with the last one
pool_yield ==
    /\ main.pc = "as_completed"
    /\ \E k \in DOMAIN tasks :
            /\ tasks[k].st = "done" /\ ~tasks[k].seen
            /\ LET after == [tasks EXCEPT ![k].seen = TRUE]
               IN  /\ tasks' = after
                   /\ main' = IF stop_event THEN [main EXCEPT !.pc = "shutdown"]
                              ELSE [main EXCEPT !.results = @ + 1,
                                                !.pc = IF \A q \in DOMAIN after : after[q].seen
                                                       THEN "shutdown" ELSE "as_completed"]
    /\ UNCHANGED <<chain_vars, cooldown_vars, pipeline_vars, event_vars, observer, created, manager_vars>>

\* leaving `with ThreadPoolExecutor`: shutdown(wait=True) returns when every
\* submitted future has run
pool_shutdown ==
    /\ main.pc = "shutdown"
    /\ \A k \in DOMAIN tasks : tasks[k].st = "done"
    /\ main' = [main EXCEPT !.pc = "observer_start"]
    /\ UNCHANGED <<chain_vars, cooldown_vars, pipeline_vars, event_vars, observer, tasks,
                   created, manager_vars>>

\* self.observer.start()
observer_start ==
    /\ main.pc = "observer_start"
    /\ observer' = "alive"
    /\ main' = [main EXCEPT !.pc = "loop"]
    /\ UNCHANGED <<chain_vars, cooldown_vars, pipeline_vars, event_vars, tasks, created, manager_vars>>

\* a loop that sleeps on
LoopSleepsOn(flag) == FALSE

\* `while not self.stop_event.is_set(): time.sleep(1)` is left
LoopExits(flag) == flag

watch_loop ==
    /\ main.pc = "loop"
    /\ LoopExits(stop_event)
    /\ main' = [main EXCEPT !.pc = "finally"]
    /\ UNCHANGED <<chain_vars, cooldown_vars, pipeline_vars, event_vars, observer, tasks,
                   created, manager_vars>>

\* PluginWatcher.stop: the flag is set and an observer that is alive is
\* stopped and joined for at most 5 seconds
stop ==
    /\ stop_event' = TRUE
    /\ observer' = IF observer = "alive" THEN "stopped" ELSE observer
    /\ UNCHANGED <<chain_vars, cooldown_vars, stable_seconds, new_delay, pipeline, fs,
                   event_vars, tasks, created, manager_vars>>

\* the finally clause of start_watching
finally_stop ==
    /\ main.pc = "finally"
    /\ stop
    /\ main' = [main EXCEPT !.pc = "returned"]

\* SIGINT or SIGTERM during start_watching: the handler runs stop() in the
\* main thread, which then goes on where it was
signal_stop ==
    /\ main.pc \notin {"idle", "returned"}
    /\ ~stop_event \/ observer = "alive"
    /\ stop
    /\ UNCHANGED main

\* a supported file appears in the tree before any stop request; the observer
\* dispatches its created event if it is alive, else nothing sees the file
file_created(path) ==
    /\ main.pc \notin {"idle", "returned"}
    /\ ~stop_event
    /\ path \notin DOMAIN fs
    /\ fs' = [q \in DOMAIN fs \cup {path} |-> IF q = path THEN 1 ELSE fs[q]]
    /\ created' = [q \in DOMAIN created \cup {path} |->
                      IF q = path THEN observer = "alive" ELSE created[q]]
    /\ UNCHANGED <<chain_vars, cooldown_vars, stop_event, stable_seconds, new_delay, pipeline,
                   event_vars, observer, main, tasks, manager_vars>>

\* the watched tree with y.T in it or not yet
LifecycleTrees ==
    {[path \in {"x.t", "y.T", ".h.t", "n.z"} |-> 1], [path \in {"x.t", ".h.t", "n.z"} |-> 1]}

\* PluginWatcher.__init__ as main.py calls it
InitLifecycle ==
    /\ processors = SortByPriority(EventPlugins)
    /\ registry_state = "Ready"
    /\ max_concurrent = DefaultMaxConcurrent
    /\ semaphore = max_concurrent
    /\ stats = ZeroStats
    /\ call = [c \in Callers |-> IdleCall]
    /\ thread = [c \in Callers |-> [i \in Positions |-> NoThread]]
    /\ HandlerInit({DefaultCooldown}, {DefaultStableSeconds}, {DefaultNewDelay}, LifecycleTrees)

\* the steps of the main thread
MainStep ==
    \/ \E process_existing \in BOOLEAN, workers \in {1, Cardinality(PoolWorkers)} :
            start_watching(process_existing, workers)
    \/ bulk_next
    \/ bulk_collect
    \/ pool_submit
    \/ pool_yield
    \/ pool_shutdown
    \/ observer_start
    \/ watch_loop
    \/ finally_stop
    \/ main.pc = "seq" /\ CallerStep("bulk") /\ UNCHANGED handler_vars

\* the steps of pool worker w
WorkerStep(w) ==
    \/ worker_take(w)
    \/ worker_done(w)
    \/ main.pc # "seq" /\ CallerStep(w) /\ UNCHANGED handler_vars

\* the steps of the invocation threads of c's chain run
TargetStep(c) ==
    /\ UNCHANGED handler_vars
    /\ \/ \E i \in Positions : target_copy(c, i)
       \/ \E i \in DOMAIN call[c].procs :
               \E v \in ReturnValues(call[c].procs[i]) : target_return(c, i, v)
       \/ \E i \in DOMAIN call[c].procs :
               \E m \in RaisedMessages(call[c].procs[i]) : target_raise(c, i, m)

NextLifecycle ==
    \/ MainStep
    \/ \E w \in PoolWorkers : WorkerStep(w)
    \/ \E w \in PoolWorkers : TargetStep(w)
    \/ signal_stop
    \/ file_created("y.T")

SpecLifecycle == InitLifecycle /\ [][NextLifecycle]_vars

\* the main thread and the pool workers keep being scheduled, and
\* join(timeout) returns; nothing makes process() of a plugin end
SpecLifecycleFair ==
    SpecLifecycle /\ WF_vars(MainStep) /\ \A w \in PoolWorkers : WF_vars(WorkerStep(w))

\* a call of process_file by a bulk thread begins in this step
BulkCallStarts == \E w \in PoolWorkers : call[w].pc = "idle" /\ call'[w].pc # "idle"

\* C16: in bulk mode, once cancellation has been requested no further file's
\* processing is started, neither the next file of the sequential path nor a
\* queued task of the worker pool; only work in flight may finish
C16_NoStartAfterCancel == [][stop_event /\ main.pc \in BulkStages => ~BulkCallStarts]_vars

\* C17: when existing files are processed at startup the event source is
\* receiving events while bulk processing runs, and every file created
\* during the bulk pass has its event dispatched to the handler
C17_WatchBeforeBulk ==
    /\ main.pc \in BulkStages /\ ~stop_event => observer = "alive"
    /\ \A path \in DOMAIN created : created[path]

\* Stopped: the flag is set, the observer is closed and start_watching has
\* returned
Stopped == stop_event /\ observer = "stopped" /\ main.pc = "returned"

\* C18: from every lifecycle state, once stop is requested the watcher
\* eventually reaches Stopped, whatever became of the files of the bulk pass
C18_StopLeadsToStopped == stop_event ~> Stopped

\* C18 witness: the watcher is Stopped after a stop request that came during
\* a bulk pass in which a processor timed out and a record was not collected
C18_Witness ==
    /\ Stopped
    /\ stats.timeouts > 0
    /\ main.results < Len(main.files)

(***************************************************************************)
(* PluginManager: plugin files, candidates and _validate_processor         *)
(***************************************************************************)
\* the classes plugin files define besides A, B and C: D and R are valid (D
\* under the name of A, R with a can_process that raises), the others break
\* the contract each in its own way and X raises in __init__
Candidates == ProcIds \cup {"D", "R", "E", "F", "G", "M", "N", "P", "Q", "T", "W", "X"}

PyInt(n) == [type |-> "int", value |-> n]

PyFloat == [type |-> "float"]

PyList(elems) == [type |-> "list", elems |-> elems]

PyTuple(elems) == [type |-> "tuple", elems |-> elems]

\* processor.name
NameAttr(c) == CASE c = "D" -> PyStr("A")
                 [] c = "N" -> PyStr("")
                 [] c = "W" -> PyStr(" ")
                 [] c = "M" -> PyInt(5)
                 [] OTHER -> PyStr(c)

\* processor.supported_extensions
ExtensionsAttr(c) ==
    CASE c = "E" -> PyList(<<PyStr("t"), PyStr(".t")>>)
      [] c = "F" -> PyList(<<>>)
      [] c = "G" -> PyList(<<PyStr(".t"), PyInt(5)>>)
      [] c = "T" -> PyTuple(<<PyStr(".t")>>)
      [] c \in {"A", "B", "D", "R"} -> PyList(<<PyStr(".t")>>)
      [] OTHER -> PyList(<<PyStr(".T")>>)

\* processor.priority
PriorityAttr(c) == IF c = "P" THEN PyFloat ELSE PyInt(Priority(c))

\* callable(processor.process)
ProcessCallable(c) == c # "Q"

\* does the class raise when it is instantiated
InstantiationRaises(c) == c = "X"

\* str.strip() of the texts in use
Strip(text) == IF text = " " THEN "" ELSE text

\* str.startswith(".") of the texts in use
StartsWithPeriod(text) == text \in {".t", ".T", ".z", ".jpg"}

\* a check that takes any entry
ExtensionAny(ext) == TRUE

\* `isinstance(ext, str) and ext.startswith(".")`
ExtensionOk(ext) == ext.type = "str" /\ StartsWithPeriod(ext.text)

\* PluginManager._validate_processor: "ok", or the message of the
\* ProcessorValidationError it raises
validate_processor(c) ==
    LET name == NameAttr(c)
        extensions == ExtensionsAttr(c)
    IN  IF name.type # "str" \/ Strip(name.text) = ""
        THEN "Processor name must be a non-empty string"
        ELSE IF extensions.type # "list" \/ extensions.elems = <<>>
        THEN "supported_extensions must be a non-empty list"
        ELSE IF \E k \in DOMAIN extensions.elems : ~ExtensionOk(extensions.elems[k])
        THEN "Invalid extension (must start with '.')"
        ELSE IF PriorityAttr(c).type # "int"
        THEN "priority must be an integer"
        ELSE IF ~ProcessCallable(c)
        THEN "process method is required and must be callable"
        ELSE "ok"

\* the plugin files a plugin directory may hold, in the order glob yields them
GlobOrder == <<"_p.py", "a.py", "bad_syntax.py", "bc.py", "boom.py", "invalid.py", "many.py",
               "mix.py", "r.py">>

\* plugin_file.name.startswith("_")
IsPrivate(u) == u = "_p.py"

\* what loading the file comes to: its source does not parse, its module
\* raises when executed, or the module is there
FileKind(u) == CASE u = "bad_syntax.py" -> "syntax"
                 [] u = "boom.py" -> "raises"
                 [] OTHER -> "module"

\* the FileProcessor subclasses of the module in the order of dir(module)
Classes(u) == CASE u = "a.py" -> <<"A">>
                [] u = "bc.py" -> <<"B", "C">>
                [] u = "invalid.py" -> <<"N">>
                [] u = "many.py" -> <<"E", "F", "G", "M", "P", "Q", "T", "W", "X">>
                [] u = "mix.py" -> <<"D", "E">>
                [] u = "r.py" -> <<"R">>
                [] u = "_p.py" -> <<"C">>
                [] OTHER -> <<>>

\* the loop of _load_plugin_file over the classes: a class that raises in
\* __init__ or fails validation is logged and left out
Instances(classes) ==
    SelectSeq(classes, LAMBDA c : ~InstantiationRaises(c) /\ validate_processor(c) = "ok")

\* PluginManager._load_plugin_file: the processors of the file, or the
\* message of the exception it raises
load_plugin_file(u) ==
    CASE FileKind(u) = "syntax" ->
            [raised |-> TRUE, error |-> "ProcessorValidationError: Syntax error", processors |-> <<>>]
      [] FileKind(u) = "raises" ->
            [raised |-> TRUE, error |-> "ProcessorValidationError: Error executing plugin",
             processors |-> <<>>]
      [] OTHER ->
            IF Instances(Classes(u)) = <<>>
            THEN [raised |-> TRUE,
                  error |-> "ProcessorValidationError: No valid FileProcessor classes found",
                  processors |-> <<>>]
            ELSE [raised |-> FALSE, error |-> "", processors |-> Instances(Classes(u))]

(***************************************************************************)
(* PluginManager.discover_plugins and reload_plugins, step by step         *)
(***************************************************************************)
\* largest number of plugin files on disk
MaxFiles == 3

\* the listings of the plugin directories
DiskLayouts ==
    {SelectSeq(GlobOrder, LAMBDA u : u \in S) :
        S \in {T \in SUBSET {GlobOrder[k] : k \in DOMAIN GlobOrder} : Cardinality(T) <= MaxFiles}}

\* a scan that gives up at the first file that fails
AfterFailureAborts(k, n) == n + 1

\* the except clause of _scan_directory is inside the loop over the files:
\* the scan goes on with the next file
AfterFailure(k, n) == k + 1

\* discover_plugins, called first or by reload_plugins: the three clear()
scan_clear ==
    /\ scan.pc = "idle"
    /\ processors' = <<>>
    /\ failed_plugins' = EmptyDict
    /\ scan' = [scan EXCEPT !.pc = "scanning", !.k = 1]
    /\ UNCHANGED <<registry_state, max_concurrent, semaphore, stats, call, thread, reader, inc>>

\* one pass of the loop of _scan_directory
scan_file ==
    /\ scan.pc = "scanning"
    /\ scan.k <= Len(scan.files)
    /\ LET u == scan.files[scan.k]
           loaded == load_plugin_file(u)
       IN  IF IsPrivate(u)
           THEN /\ scan' = [scan EXCEPT !.k = @ + 1]
                /\ UNCHANGED <<processors, failed_plugins>>
           ELSE IF loaded.raised
           THEN /\ failed_plugins' = [q \in DOMAIN failed_plugins \cup {u} |->
                                        IF q = u THEN loaded.error ELSE failed_plugins[q]]
                /\ scan' = [scan EXCEPT !.k = AfterFailure(scan.k, Len(scan.files))]
                /\ UNCHANGED processors
           ELSE /\ processors' = processors \o loaded.processors
                /\ scan' = [scan EXCEPT !.k = @ + 1]
                /\ UNCHANGED failed_plugins
    /\ UNCHANGED <<registry_state, max_concurrent, semaphore, stats, call, thread, reader, inc>>

\* self.processors.sort(key=lambda p: p.priority) and the return
scan_sort ==
    /\ scan.pc = "scanning"
    /\ scan.k > Len(scan.files)
    /\ processors' = SortByPriority(processors)
    /\ registry_state' = "Ready"
    /\ scan' = [scan EXCEPT !.pc = IF scan.by = "watcher" THEN "loaded" ELSE "idle"]
    /\ UNCHANGED <<max_concurrent, semaphore, stats, call, thread, failed_plugins, reader, inc>>

\* another thread calls get_processors_for_file(f) and
\* get_supported_extensions() once the first discovery is over
reader_query(f) ==
    /\ registry_state = "Ready"
    /\ reader' = [pc |-> "done", file_path |-> f, during |-> scan.pc # "idle",
                  ret |-> get_processors_for_file(f), extensions |-> get_supported_extensions]
    /\ UNCHANGED <<chain_vars, failed_plugins, scan, inc>>

\* PluginManager.__init__ over some listing of plugin files
InitDiscovery ==
    /\ processors = <<>>
    /\ registry_state = "Empty"
    /\ max_concurrent = DefaultMaxConcurrent
    /\ semaphore = max_concurrent
    /\ stats = ZeroStats
    /\ call = [c \in Callers |-> IdleCall]
    /\ thread = [c \in Callers |-> [i \in Positions |-> NoThread]]
    /\ now = 1
    /\ cooldown = DefaultCooldown
    /\ processed = EmptyDict
    /\ sp = [t \in Deliverers |-> IdleShould]
    /\ log = {}
    /\ stop_event = FALSE
    /\ stable_seconds = DefaultStableSeconds
    /\ new_delay = DefaultNewDelay
    /\ pipeline = [t \in Pipelines |-> NoPipeline]
    /\ fs = WholeTree
    /\ delivery = IdleDelivery
    /\ supported_extensions = {}
    /\ events = NoEvents
    /\ observer = "created"
    /\ main = IdleMain
    /\ tasks = <<>>
    /\ created = EmptyDict
    /\ failed_plugins = EmptyDict
    /\ scan \in {[IdleScan EXCEPT !.files = d] : d \in DiskLayouts}
    /\ reader = IdleReader
    /\ inc = [c \in Callers |-> IdleInc]

NextDiscovery ==
    /\ UNCHANGED <<cooldown_vars, pipeline_vars, event_vars, lifecycle_vars>>
    /\ \/ scan_clear
       \/ scan_file
       \/ scan_sort
       \/ \E f \in {"x.t", "y.T", "n.z"} : reader_query(f)

SpecDiscovery == InitDiscovery /\ [][NextDiscovery]_vars

(***************************************************************************)
(* Properties of discovery, validation and routing                         *)
(***************************************************************************)
\* a discover_plugins call has returned and none is under way
Discovered == registry_state = "Ready" /\ scan.pc = "idle"

\* the plugin files the scan does not skip
Scanned == {u \in {scan.files[k] : k \in DOMAIN scan.files} : ~IsPrivate(u)}

\* the classes of a plugin file
ClassesOf(u) == {Classes(u)[k] : k \in DOMAIN Classes(u)}

\* a class that can be instantiated and passes validation
Registrable(c) == ~InstantiationRaises(c) /\ validate_processor(c) = "ok"

\* a good plugin file: its module loads and holds a class that can be registered
GoodFile(u) == FileKind(u) = "module" /\ \E c \in ClassesOf(u) : Registrable(c)

\* the processors of the good files on disk
GoodProcessors == UNION {{c \in ClassesOf(u) : Registrable(c)} : u \in {v \in Scanned : GoodFile(v)}}

\* the processors registered now
Registered == {processors[k] : k \in DOMAIN processors}

\* C22: discovery is isolated per plugin file: whatever the mix of good and
\* bad files, after discover_plugins every processor of every good file is
\* registered, once, and failed_plugins holds exactly the names of the bad
\* files; a valid module next to one with a syntax error gives one processor
\* and one failure keyed by the bad module.
C22_DiscoveryIsolated ==
    Discovered =>
        /\ Registered = GoodProcessors
        /\ Len(processors) = Cardinality(GoodProcessors)
        /\ DOMAIN failed_plugins = {u \in Scanned : ~GoodFile(u)}
        /\ scan.files = <<"a.py", "bad_syntax.py">> =>
                /\ Len(processors) = 1
                /\ DOMAIN failed_plugins = {"bad_syntax.py"}

\* a file with a syntax error, a module that raises and a good file behind
\* them were scanned: the good file's processors are registered
C22_Witness ==
    /\ Discovered
    /\ scan.files = <<"bad_syntax.py", "bc.py", "boom.py">>
    /\ processors = <<"C", "B">>
    /\ DOMAIN failed_plugins = {"bad_syntax.py", "boom.py"}

\* C23: a plugin file in which a candidate raises during instantiation or
\* fails validation is recorded in failed_plugins under its name and that
\* candidate is not registered; a file without a valid instance is recorded
\* as a failure.
C23_CandidateFailureRecorded ==
    Discovered =>
        \A u \in {v \in Scanned : FileKind(v) = "module"} :
            /\ \A c \in ClassesOf(u) :
                    ~Registrable(c) => u \in DOMAIN failed_plugins /\ c \notin Registered
            /\ (\A c \in ClassesOf(u) : ~Registrable(c)) => u \in DOMAIN failed_plugins

\* C24: no two registered processors have the same name.
C24_NamesUnique ==
    Discovered =>
        \A i, j \in DOMAIN processors :
            i # j => NameAttr(processors[i]) # NameAttr(processors[j])

\* the structural contract of a processor
Contract(c) ==
    /\ NameAttr(c).type = "str" /\ NameAttr(c).text # ""
    /\ ExtensionsAttr(c).type = "list" /\ ExtensionsAttr(c).elems # <<>>
    /\ \A k \in DOMAIN ExtensionsAttr(c).elems :
            /\ ExtensionsAttr(c).elems[k].type = "str"
            /\ StartsWithPeriod(ExtensionsAttr(c).elems[k].text)
    /\ PriorityAttr(c).type = "int"
    /\ ProcessCallable(c)

\* C25: every registered processor has a non-empty string name, a non-empty
\* supported_extensions list whose entries all start with '.', an integer
\* priority and a callable process; validation of a candidate that breaks
\* any of these fails.
C25_OnlyValidRegistered ==
    /\ \A c \in Registered : Contract(c)
    /\ \A c \in Candidates : ~Contract(c) => validate_processor(c) # "ok"

\* a file whose classes all break the contract and a file with one class
\* that breaks it and one that does not were scanned: the one is registered
C25_Witness ==
    /\ Discovered
    /\ scan.files = <<"many.py", "mix.py">>
    /\ processors = <<"D">>

\* the registry once discover_plugins has gone over the files on disk
FullRegistry ==
    LET RECURSIVE Load(_)
        Load(k) == IF k > Len(scan.files) THEN <<>>
                   ELSE (IF IsPrivate(scan.files[k]) THEN <<>>
                         ELSE load_plugin_file(scan.files[k]).processors) \o Load(k + 1)
    IN  SortByPriority(Load(1))

\* the processors in the order discover_plugins appended them, before the sort
RECURSIVE LoadedFrom(_)
LoadedFrom(k) ==
    IF k > Len(scan.files) THEN <<>>
    ELSE (IF IsPrivate(scan.files[k]) THEN <<>>
          ELSE load_plugin_file(scan.files[k]).processors) \o LoadedFrom(k + 1)

\* the place of processor c in the list s
IndexIn(s, c) == CHOOSE k \in DOMAIN s : s[k] = c

\* C32: after discover_plugins and after reload_plugins the registry is in
\* ascending priority, processors of one priority are in the order of their
\* discovery, and get_processors_for_file returns the applicable processors
\* in the relative order they have in the registry.
C32_RegistryOrdered ==
    /\ Discovered =>
            \A i, j \in DOMAIN processors : i < j =>
                /\ Priority(processors[i]) <= Priority(processors[j])
                /\ Priority(processors[i]) = Priority(processors[j]) =>
                        IndexIn(LoadedFrom(1), processors[i])
                            < IndexIn(LoadedFrom(1), processors[j])
    /\ Discovered /\ reader.pc = "done" /\ ~reader.during =>
            \A i, j \in DOMAIN reader.ret : i < j =>
                IndexIn(processors, reader.ret[i]) < IndexIn(processors, reader.ret[j])

\* a.py, bc.py and mix.py were loaded in this order, which appends A, B, C
\* and D: the registry holds A and D (priority 10, in discovery order), then
\* C (100) and B (200), and the query for x.t returned the four in this order
C32_Witness ==
    /\ Discovered
    /\ scan.files = <<"a.py", "bc.py", "mix.py">>
    /\ processors = <<"A", "D", "C", "B">>
    /\ reader.pc = "done" /\ ~reader.during
    /\ reader.file_path = "x.t"
    /\ reader.ret = <<"A", "D", "C", "B">>

\* C26: a can_process that raises is taken as 'does not apply':
\* get_processors_for_file returns, in priority order and once each, the
\* other registered processors whose can_process accepts the path.
C26_CanProcessErrorIsolated ==
    reader.pc = "done" /\ ~reader.during =>
        LET ret == reader.ret
            f == reader.file_path
        IN  /\ {ret[k] : k \in DOMAIN ret} =
                    {c \in GoodProcessors : ~CanProcessRaises(c, f) /\ CanProcess(c, f)}
            /\ \A i, j \in DOMAIN ret :
                    i < j => ret[i] # ret[j] /\ Priority(ret[i]) <= Priority(ret[j])

\* R, whose can_process raises, is registered ahead of A, C and B: the query
\* for x.t returned A, C and B
C26_Witness ==
    /\ reader.pc = "done" /\ ~reader.during
    /\ reader.file_path = "x.t"
    /\ processors = <<"R", "A", "C", "B">>
    /\ reader.ret = <<"A", "C", "B">>

\* C27: a query that runs while reload_plugins is under way sees the complete
\* registry of before the reload or the complete one of after it (the same
\* here: the files on disk did not change).
C27_ReloadAtomic ==
    reader.pc = "done" =>
        /\ reader.ret = SortByPriority(SelectApplicable(FullRegistry, reader.file_path))
        /\ reader.extensions =
                UNION {{Lower(e) : e \in SupportedExtensions(FullRegistry[k])} :
                        k \in DOMAIN FullRegistry}

(***************************************************************************)
(* Cumulative counters: reset_stats and PluginWatcher.reload_plugins       *)
(***************************************************************************)
\* chain runs followed between two resets of the counters
MaxRuns == 2

\* ProcessorChain.reset_stats
reset_stats ==
    /\ stats' = ZeroStats
    /\ UNCHANGED <<processors, registry_state, max_concurrent, semaphore, call, thread,
                   handler_vars>>

\* PluginWatcher.reload_plugins up to the clear() of discover_plugins; it is
\* followed when no chain run is under way
watcher_reload_begin ==
    /\ scan.pc = "idle"
    /\ \A c \in Callers : call[c].pc = "idle"
    /\ processors' = <<>>
    /\ failed_plugins' = EmptyDict
    /\ scan' = [scan EXCEPT !.pc = "scanning", !.k = 1, !.by = "watcher"]
    /\ UNCHANGED <<registry_state, max_concurrent, semaphore, stats, call, thread, reader, inc,
                   cooldown_vars, pipeline_vars, event_vars, lifecycle_vars>>

\* the rest of PluginWatcher.reload_plugins: the handler's extensions are
\* recomputed and its processor_chain is replaced by a new ProcessorChain,
\* whose semaphore and counters are new
watcher_reload_finish ==
    /\ scan.pc = "loaded"
    /\ scan' = [scan EXCEPT !.pc = "idle", !.by = "manager"]
    /\ supported_extensions' = get_supported_extensions
    /\ semaphore' = max_concurrent
    /\ stats' = ZeroStats
    /\ UNCHANGED <<processors, registry_state, max_concurrent, call, thread, failed_plugins,
                   reader, inc, cooldown_vars, pipeline_vars, delivery, events, lifecycle_vars>>

\* the watcher of main.py over a.py, with or without a broken plugin file
\* next to it
InitReload ==
    /\ processors = <<"A">>
    /\ registry_state = "Ready"
    /\ max_concurrent = DefaultMaxConcurrent
    /\ semaphore = max_concurrent
    /\ stats = ZeroStats
    /\ call = [c \in Callers |-> IdleCall]
    /\ thread = [c \in Callers |-> [i \in Positions |-> NoThread]]
    /\ now = 1
    /\ cooldown = DefaultCooldown
    /\ processed = EmptyDict
    /\ sp = [t \in Deliverers |-> IdleShould]
    /\ log = {}
    /\ stop_event = FALSE
    /\ stable_seconds = DefaultStableSeconds
    /\ new_delay = DefaultNewDelay
    /\ pipeline = [t \in Pipelines |-> NoPipeline]
    /\ fs = WholeTree
    /\ delivery = IdleDelivery
    /\ supported_extensions = get_supported_extensions
    /\ events = NoEvents
    /\ observer = "created"
    /\ main = IdleMain
    /\ tasks = <<>>
    /\ created = EmptyDict
    /\ scan \in {[IdleScan EXCEPT !.files = d] : d \in {<<"a.py">>, <<"a.py", "bad_syntax.py">>}}
    /\ failed_plugins = [u \in {v \in Range(scan.files) : load_plugin_file(v).raised} |->
                            load_plugin_file(u).error]
    /\ reader = IdleReader
    /\ inc = [c \in Callers |-> IdleInc]

NextReload ==
    \/ /\ scan.pc = "idle"
       /\ stats.files_processed < MaxRuns
       /\ \E f \in {"x.t", "n.z"} : process_file("event", f, "None")
       /\ UNCHANGED handler_vars
    \/ ChainStep("event")
    \/ Returned("event") /\ CallOver("event") /\ UNCHANGED handler_vars
    \/ reset_stats
    \/ watcher_reload_begin
    \/ (scan_file \/ scan_sort)
            /\ UNCHANGED <<cooldown_vars, pipeline_vars, event_vars, lifecycle_vars>>
    \/ watcher_reload_finish

SpecReload == InitReload /\ [][NextReload]_vars

\* C28: no operation of the watcher other than an explicit reset_stats makes
\* a counter reported by get_stats decrease.
C28_CountersMonotone ==
    [][reset_stats \/ \A key \in DOMAIN stats : stats'[key] >= stats[key]]_vars

(***************************************************************************)
(* ProcessorChain._stats under concurrent process_file calls               *)
(***************************************************************************)
\* chain runs each thread makes
MaxCounterRuns == 1

\* the threads whose chain runs overlap: an event pipeline and a bulk worker
CounterThreads == {"event", "bulk"}

\* how the invocation of a processor can end in process_file
Outcomes == {"success", "failed", "timeout", "error"}

\* the counters process_file adds one to for an outcome, in the order of the
\* statements
OutcomeKeys(outcome) ==
    CASE outcome = "success" -> <<"total_processors_run", "successful_processors">>
      [] outcome = "failed" -> <<"total_processors_run", "failed_processors">>
      [] outcome = "timeout" -> <<"timeouts", "failed_processors">>
      [] OTHER -> <<"failed_processors">>

\* process_file of a file with one applicable processor, up to the with
\* statement; `outcome` is how the invocation will end
counters_begin(c, outcome) ==
    /\ inc[c].pc = "idle"
    /\ inc[c].runs < MaxCounterRuns
    /\ inc' = [inc EXCEPT ![c] = [@ EXCEPT !.pc = "acquire", !.todo = OutcomeKeys(outcome)]]
    /\ UNCHANGED <<semaphore, stats>>

\* with self._semaphore: entry
counters_acquire(c) ==
    /\ inc[c].pc = "acquire"
    /\ CanAcquire(semaphore)
    /\ semaphore' = semaphore - 1
    /\ inc' = [inc EXCEPT ![c] = [@ EXCEPT !.pc = "load", !.held = TRUE]]
    /\ UNCHANGED stats

\* `self._stats[key] += 1`, first half: the value of the counter is loaded
counters_load(c) ==
    /\ inc[c].pc = "load"
    /\ inc' = [inc EXCEPT ![c] = [@ EXCEPT !.pc = "store", !.tmp = stats[Head(inc[c].todo)]]]
    /\ UNCHANGED <<semaphore, stats>>

\* `self._stats[key] += 1`, second half: the loaded value plus one is stored;
\* after files_processed the run returns
counters_store(c) ==
    /\ inc[c].pc = "store"
    /\ LET key == Head(inc[c].todo)
           rest == Tail(inc[c].todo)
       IN  /\ stats' = [stats EXCEPT ![key] = inc[c].tmp + 1]
           /\ inc' = [inc EXCEPT ![c] =
                    [@ EXCEPT !.todo = rest,
                              !.counted = Inc(@, key),
                              !.runs = IF rest = <<>> /\ ~inc[c].held THEN @ + 1 ELSE @,
                              !.pc = IF rest # <<>> THEN "load"
                                     ELSE IF inc[c].held THEN "release" ELSE "idle"]]
    /\ UNCHANGED semaphore

\* with self._semaphore: exit; files_processed is counted outside of it
counters_release(c) ==
    /\ inc[c].pc = "release"
    /\ semaphore' = semaphore + 1
    /\ inc' = [inc EXCEPT ![c] = [@ EXCEPT !.pc = "load", !.held = FALSE,
                                          !.todo = <<"files_processed">>]]
    /\ UNCHANGED stats

\* a chain over A with any max_concurrent
InitCounters ==
    /\ processors = <<"A">>
    /\ registry_state = "Ready"
    /\ max_concurrent \in 1..MaxPermits
    /\ semaphore = max_concurrent
    /\ stats = ZeroStats
    /\ call = [c \in Callers |-> IdleCall]
    /\ thread = [c \in Callers |-> [i \in Positions |-> NoThread]]
    /\ HandlerDefault

NextCounters ==
    /\ UNCHANGED <<processors, registry_state, max_concurrent, call, thread, cooldown_vars,
                   pipeline_vars, event_vars, lifecycle_vars, failed_plugins, scan, reader>>
    /\ \E c \in CounterThreads :
        \/ \E outcome \in Outcomes : counters_begin(c, outcome)
        \/ counters_acquire(c)
        \/ counters_load(c)
        \/ counters_store(c)
        \/ counters_release(c)

SpecCounters == InitCounters /\ [][NextCounters]_vars

\* C29: no increment is lost: once all calls have returned, files_processed
\* is the number of completed chain runs and every counter is the number of
\* additions the runs made to it.
C29_NoLostIncrement ==
    (\A c \in CounterThreads : inc[c].pc = "idle") =>
        /\ stats.files_processed = inc["event"].runs + inc["bulk"].runs
        /\ \A key \in DOMAIN stats :
                stats[key] = inc["event"].counted[key] + inc["bulk"].counted[key]

(***************************************************************************)
(* Two chain runs on one file                                              *)
(***************************************************************************)
\* the entry the first run appended first for position i
FirstEntry(i) ==
    LET results == call["main"].results
    IN  results[CHOOSE k \in EntriesOf(results, i) : \A q \in EntriesOf(results, i) : k <= q]

\* a processor that keeps state between its invocations
StatefulReturn(i, v) == TRUE

\* a stateless processor returns in the second run what it returned in the
\* first; what it would have returned in a first run that abandoned it is
\* not known
StatelessReturn(i, v) ==
    \/ TimedOut("main", i)
    \/ FirstEntry(i) = ResultEntry(call["main"].procs[i], i, Normalize(v))

\* a stateless processor raises in the second run what it raised in the first
StatelessRaise(i, m) ==
    \/ TimedOut("main", i)
    \/ FirstEntry(i) = ErrorEntry(call["main"].procs[i], i,
                                  ProcessorError(m, call["main"].procs[i], call["main"].file_path).text)

\* process_file(f) is called, and once it has returned it is called again on
\* the same file: "main" is the frame of the first call, kept after its
\* return, and "event" the frame of the second
NextIdem ==
    /\ UNCHANGED handler_vars
    /\ \/ \E f \in Files : process_file("main", f, "None")
       \/ CallerStep("main")
       \/ \E i \in Positions : target_copy("main", i)
       \/ \E i \in DOMAIN call["main"].procs :
               \E v \in ReturnValues(call["main"].procs[i]) : target_return("main", i, v)
       \/ \E i \in DOMAIN call["main"].procs :
               \E m \in RaisedMessages(call["main"].procs[i]) : target_raise("main", i, m)
       \/ Returned("main") /\ process_file("event", call["main"].file_path, "None")
       \/ CallerStep("event")
       \/ \E i \in Positions : target_copy("event", i)
       \/ \E i \in DOMAIN call["event"].procs :
               \E v \in ReturnValues(call["event"].procs[i]) :
                   StatelessReturn(i, v) /\ target_return("event", i, v)
       \/ \E i \in DOMAIN call["event"].procs :
               \E m \in RaisedMessages(call["event"].procs[i]) :
                   StatelessRaise(i, m) /\ target_raise("event", i, m)

SpecIdem == InitWatcher /\ [][NextIdem]_vars

\* the fields of a record that the two runs are compared on
Compared(record) ==
    IF record.processors_run = 0 THEN <<record.success, 0, 0, 0, <<>>>>
    ELSE <<record.success, record.processors_run, record.successful_processors,
           record.failed_processors,
           [k \in DOMAIN record.results |-> <<record.results[k].processor, record.results[k].order>>]>>

\* the positions of c's run that were abandoned on timeout
TimedOutAt(c) == {i \in DOMAIN call[c].procs : TimedOut(c, i)}

NotAResult(e) ==
    /\ e.processor = "A"
    /\ ~HasMarker(e, "timeout")
    /\ e.result.message # <<"ok">>

\* C33: a process() that returns None is a processor error: its entry has
\* success = false and the error marker, failed_processors counts it and the
\* record's success is false.
C33_NoneIsError ==
    \A c \in Callers :
        \A k \in DOMAIN call[c].results :
            NotAResult(call[c].results[k]) =>
                /\ ~call[c].results[k].success
                /\ HasMarker(call[c].results[k], "error")
                /\ Returned(c) =>
                        /\ ~call[c].ret.success
                        /\ call[c].ret.failed_processors >= 1

(***************************************************************************)
(* ProcessorChain.process_multiple_files called on a list of paths         *)
(***************************************************************************)
\* longest list of paths
MaxBatch == 3

\* the lists of paths: any order, repeats allowed
Batches == UNION {[1..n -> Files] : n \in 0..MaxBatch}

\* process_multiple_files(file_paths) up to the loop
process_multiple_files(file_paths) ==
    /\ main.pc = "idle"
    /\ main' = [IdleMain EXCEPT !.files = file_paths, !.k = 1,
                                !.pc = IF file_paths = <<>> THEN "returned" ELSE "seq"]
    /\ UNCHANGED <<chain_vars, cooldown_vars, pipeline_vars, event_vars, observer, tasks,
                   created, manager_vars>>

\* the next path of the loop makes process_file raise
bulk_raises ==
    /\ main.pc = "seq"
    /\ main.k <= Len(main.files)
    /\ process_file_raises("bulk", main.files[main.k])
    /\ UNCHANGED handler_vars

NextBatch ==
    \/ \E file_paths \in Batches : process_multiple_files(file_paths)
    \/ bulk_next
    \/ bulk_raises
    \/ bulk_collect
    \/ bulk_except
    \/ CallerStep("bulk") /\ UNCHANGED handler_vars
    \/ TargetStep("bulk")

SpecBatch == InitLifecycle /\ [][NextBatch]_vars

\* C34: process_multiple_files returns one record per input path, in input
\* order; a path whose processing raises gets the failed record (success =
\* false, processors_run = 0) and the loop goes on with the path after it.
C34_OneRecordPerPath ==
    /\ [](main.pc \in {"seq", "returned"} =>
            /\ Len(main.records) = (IF main.pc = "returned" THEN Len(main.files) ELSE main.k - 1)
            /\ \A j \in DOMAIN main.records : main.records[j].file_path = main.files[j])
    /\ [][main.pc = "seq" /\ call["bulk"].pc = "raised" /\ main' # main =>
            /\ main'.records = Append(main.records,
                    [file_path |-> main.files[main.k], processors_run |-> 0, results |-> <<>>,
                     success |-> FALSE, message |-> <<"Chain execution failed">>])
            /\ main'.k = main.k + 1
            /\ main'.pc = IF main.k < Len(main.files) THEN "seq" ELSE "returned"]_vars

\* of three paths the second made process_file raise: the list has the record
\* of a chain run, the failed record, and the record of a chain run again
C34_Witness ==
    /\ main.pc = "returned"
    /\ main.files = <<"x.t", "x.t", "x.t">>
    /\ Len(main.records) = 3
    /\ main.records[1].processors_run = 1
    /\ main.records[2].message = <<"Chain execution failed">>
    /\ main.records[3].processors_run = 1

(***************************************************************************)
(* Properties of the counters and the permit between chain runs            *)
(***************************************************************************)
\* no thread is inside process_file
NoRunInProgress == \A c \in Callers : call[c].pc \in {"idle", "returned", "raised"}

\* C35: whenever no process_file call is in progress, total_processors_run
\* equals successful_processors + failed_processors.
C35_CountersConsistent ==
    NoRunInProgress =>
        stats.total_processors_run = stats.successful_processors + stats.failed_processors

\* the callers inside the with block of process_file
Holders == {c \in Callers : call[c].pc \in {"start", "join", "release"}}

\* C36: the permit is never leaked: the permits that are free are the ones
\* no chain run holds, so whenever no chain run is inside the guarded section
\* all max_concurrent permits are free and a later call can acquire one,
\* whether the processors of the earlier runs succeeded, failed, raised or
\* timed out.
C36_PermitNotLeaked ==
    /\ semaphore = max_concurrent - Cardinality(Holders)
    /\ Holders = {} => semaphore = max_concurrent /\ CanAcquire(semaphore)

\* with one permit, the run of the event path ended with a timed-out
\* processor and the one of the bulk path with a processor that raised; no
\* run is in progress and the permit is free
C36_Witness ==
    /\ max_concurrent = 1
    /\ NoRunInProgress
    /\ Returned("event") /\ Returned("bulk")
    /\ \E k \in DOMAIN call["event"].results : HasMarker(call["event"].results[k], "timeout")
    /\ \E k \in DOMAIN call["bulk"].results : HasMarker(call["bulk"].results[k], "error")
    /\ \E k \in DOMAIN call["bulk"].results : call["bulk"].results[k].success
    /\ semaphore = 1

(***************************************************************************)
(* Properties of invocations abandoned on timeout                          *)
(***************************************************************************)
\* C37: a step of an invocation that was abandoned on timeout (its copy of
\* the context, its writes to it, its return or its raise) changes neither
\* the frame and record of the chain run, the shared context among them, nor
\* the counters or the permit; the timeout entry recorded for it stays as it
\* is and is the entry of the returned record.
C37_LateCompletionIgnored ==
    /\ [][\A c \in Callers : \A i \in DOMAIN call[c].procs :
            TimedOut(c, i) /\ thread'[c][i] # thread[c][i] =>
                call' = call /\ stats' = stats /\ semaphore' = semaphore]_vars
    /\ [][\A c \in Callers : \A k \in DOMAIN call[c].results :
            HasMarker(call[c].results[k], "timeout") =>
                /\ k \in DOMAIN call'[c].results
                /\ call'[c].results[k] = call[c].results[k]
                /\ Returned(c)' => call'[c].ret.results[k] = call[c].results[k]]_vars

\* A was abandoned on timeout, B ran and the record was returned; then A's
\* invocation wrote to its context and ended: the record still has the
\* timeout entry of A and the successful entry of B
C37_Witness ==
    /\ Returned("main")
    /\ call["main"].procs = <<"A", "B">>
    /\ thread["main"][1].st = "finished"
    /\ thread["main"][1].mutated
    /\ HasMarker(call["main"].ret.results[1], "timeout")
    /\ call["main"].ret.results[2].success
    /\ call["main"].ret.failed_processors = 1
    /\ stats.timeouts = 1 /\ stats.failed_processors = 1

(***************************************************************************)
(* The event path with a processor that rewrites the watched file          *)
(***************************************************************************)
\* largest number of writes from outside
MaxWrites == 1

\* a program other than imgc writes the file: the observer queues the
\* modification event
external_write(path) ==
    /\ events.writes < MaxWrites
    /\ fs' = [q \in DOMAIN fs \cup {path} |-> IF q = path THEN MaxSize ELSE fs[q]]
    /\ events' = [queue |-> Append(events.queue, path), writes |-> events.writes + 1]
    /\ UNCHANGED <<chain_vars, cooldown_vars, stop_event, stable_seconds, new_delay, pipeline,
                   delivery, supported_extensions, lifecycle_vars, manager_vars>>

\* the observer passes the oldest queued event to on_modified
observer_dispatch ==
    /\ events.queue # <<>>
    /\ on_any_event(Head(events.queue))
    /\ events' = [events EXCEPT !.queue = Tail(@)]

\* process() replaces the file by its compressed version
\* (tmp_path.replace(file_path)) and returns its result: the observer queues
\* the modification event of the file
target_rewrite(c, i, v) ==
    /\ v.type = "ProcessorResult" /\ v.success
    /\ target_return(c, i, v)
    /\ fs' = [q \in DOMAIN fs \cup {call[c].file_path} |->
                IF q = call[c].file_path THEN 1 ELSE fs[q]]
    /\ events' = [events EXCEPT !.queue = Append(@, call[c].file_path)]
    /\ UNCHANGED <<cooldown_vars, stop_event, stable_seconds, new_delay, pipeline,
                   delivery, supported_extensions, lifecycle_vars, manager_vars>>

\* PluginWatcher.__init__ with a cooldown, some stable_seconds and new_delay
InitRewrite ==
    /\ processors = SortByPriority(EventPlugins)
    /\ registry_state = "Ready"
    /\ max_concurrent = DefaultMaxConcurrent
    /\ semaphore = max_concurrent
    /\ stats = ZeroStats
    /\ call = [c \in Callers |-> IdleCall]
    /\ thread = [c \in Callers |-> [i \in Positions |-> NoThread]]
    /\ HandlerInit({MaxCooldown}, 0..MaxStableSeconds, {DefaultNewDelay, 1}, {WholeTree})

\* the clock runs while events are queued, delivered and processed
NextRewrite ==
    \/ Tick /\ UNCHANGED <<chain_vars, pipeline_vars, event_vars, lifecycle_vars, manager_vars>>
    \/ external_write("x.t")
    \/ observer_dispatch
    \/ /\ delivery.pc = "should"
       /\ should_get("delivery") \/ should_decide("delivery")
       /\ UNCHANGED <<chain_vars, pipeline_vars, event_vars, lifecycle_vars, manager_vars>>
    \/ on_event_start
    \/ on_event_return
    \/ \E t \in Pipelines : PipelineStep(t)
    \/ \E t \in Pipelines : ChainStep(t)
    \/ \E t \in Pipelines : \E i \in DOMAIN call[t].procs :
            \E v \in ReturnValues(call[t].procs[i]) : target_rewrite(t, i, v)

SpecRewrite == InitRewrite /\ [][NextRewrite]_vars

\* the chain runs that were started on the event path
ChainRuns == {t \in Pipelines : call[t].pc # "idle"}

\* C38: the event of a processor's own rewrite of the file starts no chain
\* run: there are at most as many chain runs as writes from outside.
C38_NoSelfTrigger == Cardinality(ChainRuns) <= events.writes

(***************************************************************************)
(* Properties of the event path for a file no processor takes              *)
(***************************************************************************)
\* pipeline t got the zero-processor record from process_file
GotZeroRecord(t) ==
    /\ call[t].pc = "returned"
    /\ call[t].ret.processors_run = 0
    /\ call[t].ret.success

\* C39: an accepted event for a file to which no processor applies ends as a
\* no-op: _process_file_safely reads fields of the zero-processor record only
\* and does not end in its error path.
C39_ZeroRecordNoError ==
    \A t \in Pipelines :
        pipeline[t].pc = "done" /\ GotZeroRecord(t) =>
            /\ pipeline[t].outcome # "error"
            /\ "successful_processors" \in DOMAIN call[t].ret

(***************************************************************************)
(* Properties of the observer's start                                      *)
(***************************************************************************)
\* C40: the observer is never started once cancellation has been requested:
\* a stop request made during the bulk phase of start_watching keeps the
\* observer from being started afterwards.
C40_NoStartAfterStop ==
    [][stop_event => ~(observer # "alive" /\ observer' = "alive")]_vars
====
